---- MODULE Spec2Model ----
(***************************************************************************)
(* Model of the Polytoria avatar toolkit (src/script.js).                   *)
(*                                                                         *)
(* The template converter: the two UV-atlas layout tables, the image-file  *)
(* validation, the image decode with its timeout, the region-by-region     *)
(* blit onto the destination canvas and the PNG download.                  *)
(*                                                                         *)
(* The 3D preview: the rig and its reloads, the skin tone, the clothing    *)
(* textures and the face decal, and the accessories.                       *)
(*                                                                         *)
(* JavaScript arrays are 0-based and TLA+ sequences 1-based: region i of   *)
(* the source is element i+1 of the sequences below.                       *)
(***************************************************************************)
EXTENDS Integers, Sequences, FiniteSets, TLC

VARIABLES
    convs,            \* one record per started click handler of convertBtn
    status,           \* the #ugcStatus element: last message and its class
    rbxMap,           \* the object bound to rbxMapData
    polyMap,          \* the object bound to polyMapData
    polyModel,        \* the global polyModel: the rig, NoModel for null
    gltfLoads,        \* one record per call of loadModelFromPath
    equippedUgc,      \* the global equippedUgc
    ugcLoads,         \* the runs of loadUgc whose file is still read or parsed
    currentSkinTone,  \* the global currentSkinTone
    activeTextures,   \* the global activeTextures
    faceTexture,      \* the global faceTexture
    faceDecal,        \* the window load handler and its face decal timer
    uploads,          \* one record per started change handler of #upload
    clothingType      \* the value of the #clothingType select

\* the variables of the 3D preview
avatarVars ==
    <<polyModel, gltfLoads, equippedUgc, ugcLoads, currentSkinTone,
      activeTextures, faceTexture, faceDecal, uploads, clothingType>>

vars == <<convs, status, rbxMap, polyMap, avatarVars>>

-----------------------------------------------------------------------------
(* Bounds of the model *)

\* number of click handlers of convertBtn that are started in one behaviour
MaxConv == 1

\* largest number of trailing regions a category loses in the shortened
\* layouts of SpecLayouts
MaxDrop == 1

\* number of click handlers of convertBtn that are started in one behaviour
\* of SpecApp
MaxRepeat == 2

\* number of calls of loadModelFromPath in one behaviour
MaxModelLoads == 2

\* number of runs of loadUgc that read or parse their file at the same time
MaxUgcPending == 2

\* number of change handlers of #upload that are started in one behaviour
MaxUploads == 1

\* number of accessories that are equipped or being loaded at the same
\* time in SpecAccessories
MaxAccessories == 1

\* number of change handlers of #upload that are started in one behaviour
\* of SpecWardrobe
MaxWardrobe == 2

-----------------------------------------------------------------------------
(* Program constants *)

MAX_FILE_SIZE == 50 * 1024 * 1024
MAX_IMAGE_SIZE == 10 * 1024 * 1024
MAX_TRIANGLES == 500000

\* loadUgc starts no load once equippedUgc has this length
MAX_UGC == 9

\* loadImageSafely rejects a decoded image wider or higher than this
MaxImageDim == 8192
HugeWidth == MaxImageDim + 1

\* canvas.width / canvas.height of the handler
PolyCanvasWidth == 1024
PolyCanvasHeight == 1024
RbxCanvasWidth == 585
RbxCanvasHeight == 559

HexDigit == <<"0","1","2","3","4","5","6","7","8","9","a","b","c","d","e","f">>

FILE_SIGNATURES ==
    [png  |-> <<"8","9","5","0","4","e","4","7">>,
     jpg  |-> <<"f","f","d","8","f","f">>,
     jpeg |-> <<"f","f","d","8","f","f">>,
     glb  |-> <<"6","7","6","c","5","4","4","6">>]

rbxMapData ==
    [top_parts |-> <<
        [rect |-> <<231, 8, 128, 64>>],
        [rect |-> <<165, 74, 64, 128>>],
        [rect |-> <<231, 74, 128, 128>>],
        [rect |-> <<361, 74, 64, 128>>],
        [rect |-> <<427, 74, 128, 128>>],
        [rect |-> <<231, 204, 128, 64>>] >>,
     bottom_parts |-> <<
        [rect |-> <<217, 289, 64, 64>>],
        [rect |-> <<308, 289, 64, 64>>],
        [rect |-> <<19, 355, 64, 128>>],
        [rect |-> <<85, 355, 64, 128>>],
        [rect |-> <<151, 355, 64, 128>>],
        [rect |-> <<217, 355, 64, 128>>],
        [rect |-> <<308, 355, 64, 128>>],
        [rect |-> <<374, 355, 64, 128>>],
        [rect |-> <<440, 355, 64, 128>>],
        [rect |-> <<506, 355, 64, 128>>],
        [rect |-> <<217, 485, 64, 64>>],
        [rect |-> <<308, 485, 64, 64>>] >>]

polyMapData ==
    [top_parts |-> <<
        [rect |-> <<199, 74, 200, 100>>],
        [rect |-> <<89, 184, 100, 200>>],
        [rect |-> <<199, 184, 200, 200>>],
        [rect |-> <<409, 184, 100, 200>>],
        [rect |-> <<519, 184, 200, 200>>],
        [rect |-> <<199, 394, 200, 100>>] >>,
     bottom_parts |-> <<
        [rect |-> <<382, 557, 100, 100>>],
        [rect |-> <<538, 557, 100, 100>>],
        [rect |-> <<52, 667, 100, 200>>],
        [rect |-> <<162, 667, 100, 200>>],
        [rect |-> <<272, 667, 100, 200>>],
        [rect |-> <<382, 667, 100, 200>>],
        [rect |-> <<538, 667, 100, 200>>],
        [rect |-> <<649, 667, 100, 200>>],
        [rect |-> <<759, 667, 100, 200>>],
        [rect |-> <<870, 667, 100, 200>>],
        [rect |-> <<382, 877, 100, 100>>],
        [rect |-> <<538, 877, 100, 100>>] >>]

\* variant: the lower-body category is visited first
CategoriesReversed == <<"bottom_parts", "top_parts">>

\* the order in which the handler visits the categories
Categories == <<"top_parts", "bottom_parts">>

-----------------------------------------------------------------------------
(* The files the user can put into #converterInput.  A file is named by an *)
(* identifier; its size, name, leading bytes and decoded raster are given  *)
(* by the operators below.                                                 *)

NoFile == "(none)"

Files ==
    {"white585", "white1024", "gradient1024", "marker585", "tiny",
     "huge", "corrupt", "oversize", "gif", "spoof"}

\* shirt templates: images of the canonical size of a platform that are
\* white inside the upper-body rectangles of its layout and transparent
\* elsewhere
ShirtFiles == {"polyShirt", "rbxShirt"}

FileSize(f) ==
    IF f = "oversize" THEN MAX_IMAGE_SIZE + 1
    ELSE IF f = "white1024" THEN MAX_IMAGE_SIZE
    ELSE IF f = "giant" THEN MAX_FILE_SIZE + 1
    ELSE 4096

\* file.name, one character per element
FileName(f) ==
    CASE f = "gif"       -> <<"a", ".", "g", "i", "f">>
      [] f = "white1024" -> <<"w", ".", "P", "N", "G">>
      [] f = "tiny"      -> <<"t", ".", "v", "1", ".", "j", "p", "g">>
      [] f = "heavy"     -> <<"H", ".", "G", "L", "B">>
      [] f = "notes"     -> <<"n", ".", "t", "x", "t">>
      [] f \in {"hat", "mask", "fake", "broken", "giant"}
                         -> <<"h", ".", "g", "l", "b">>
      [] OTHER           -> <<"a", ".", "p", "n", "g">>

PngBytes == <<137, 80, 78, 71, 13, 10, 26, 10>>
JpegBytes == <<255, 216, 255, 224, 0, 16, 74, 70>>
GifBytes == <<71, 73, 70, 56, 57, 97, 1, 0>>
GlbBytes == <<103, 108, 84, 70, 2, 0, 0, 0>>

\* the first bytes of the file
FileBytes(f) ==
    CASE f = "gif"   -> GifBytes
      [] f = "spoof" -> GifBytes
      [] f \in {"tiny", "mislabeled"} -> JpegBytes
      [] f \in {"hat", "mask", "heavy", "broken", "notes", "giant"} -> GlbBytes
      [] OTHER       -> PngBytes

\* whether the browser's decoder can decode the file
Decodable(f) == f # "corrupt"

\* whether GLTFLoader can parse the file, and the triangles of its meshes
Parses(f) == f # "broken"
Triangles(f) == IF f = "heavy" THEN MAX_TRIANGLES + 1 ELSE 12

\* colours of a pixel: a tag and, for the gradient image, the coordinates
\* that make the colour of every pixel of that image unique
Transparent == <<"transparent", 0, 0>>
White == <<"white", 0, 0>>
Red == <<"red", 0, 0>>

\* position of the red pixel of the marker image: the top-left corner of
\* the first top_parts rectangle of polyMapData
MarkerX == polyMapData.top_parts[1].rect[1]
MarkerY == polyMapData.top_parts[1].rect[2]

\* the raster the decoder produces for a decodable file
Raster(f) ==
    CASE f = "white585"     -> [width |-> 585,  height |-> 559,  kind |-> "white"]
      [] f = "white1024"    -> [width |-> 1024, height |-> 1024, kind |-> "white"]
      [] f = "gradient1024" -> [width |-> 1024, height |-> 1024, kind |-> "gradient"]
      [] f = "marker585"    -> [width |-> 585,  height |-> 559,  kind |-> "marker"]
      [] f = "tiny"         -> [width |-> 1,    height |-> 1,    kind |-> "white"]
      [] f = "huge"         -> [width |-> HugeWidth, height |-> 16,   kind |-> "white"]
      [] f = "polyShirt"    -> [width |-> 1024, height |-> 1024, kind |-> "polyShirt"]
      [] f = "rbxShirt"     -> [width |-> 585,  height |-> 559,  kind |-> "rbxShirt"]
      [] OTHER              -> [width |-> 16,   height |-> 16,   kind |-> "white"]

-----------------------------------------------------------------------------
(* String helpers of the validation *)

UpperCase ==
    <<"A", "B", "C", "D", "E", "F", "G", "H", "I", "J", "K", "L", "M",
      "N", "O", "P", "Q", "R", "S", "T", "U", "V", "W", "X", "Y", "Z">>
LowerCase ==
    <<"a", "b", "c", "d", "e", "f", "g", "h", "i", "j", "k", "l", "m",
      "n", "o", "p", "q", "r", "s", "t", "u", "v", "w", "x", "y", "z">>

\* String.prototype.toLowerCase, one character
ToLowerCase(c) ==
    IF \E i \in DOMAIN UpperCase : UpperCase[i] = c
    THEN LowerCase[CHOOSE i \in DOMAIN UpperCase : UpperCase[i] = c]
    ELSE c

\* String.prototype.toLowerCase
Lower(s) == [i \in 1..Len(s) |-> ToLowerCase(s[i])]

\* String.prototype.lastIndexOf, 0-based, -1 when absent
LastIndexOf(s, c) ==
    LET hits == {i \in 1..Len(s) : s[i] = c}
    IN  IF hits = {} THEN -1
        ELSE (CHOOSE i \in hits : \A j \in hits : j <= i) - 1

\* String.prototype.slice(start) with one argument; a negative start counts
\* from the end
Slice(s, start) ==
    LET from == IF start < 0 THEN (IF Len(s) + start < 0 THEN 0 ELSE Len(s) + start)
                ELSE (IF start > Len(s) THEN Len(s) ELSE start)
    IN  SubSeq(s, from + 1, Len(s))

StartsWith(s, prefix) ==
    /\ Len(prefix) <= Len(s)
    /\ SubSeq(s, 1, Len(prefix)) = prefix

EndsWith(s, suffix) ==
    /\ Len(suffix) <= Len(s)
    /\ SubSeq(s, Len(s) - Len(suffix) + 1, Len(s)) = suffix

\* String.prototype.includes
Includes(s, part) ==
    \E i \in 0..(Len(s) - Len(part)) : SubSeq(s, i + 1, i + Len(part)) = part

\* arr[i].toString(16).padStart(2, '0')
Hex2(b) == <<HexDigit[(b \div 16) + 1], HexDigit[(b % 16) + 1]>>

RECURSIVE Header(_)
Header(bytes) ==
    IF bytes = <<>> THEN <<>> ELSE Hex2(Head(bytes)) \o Header(Tail(bytes))

\* validateFileSignature: the resolved value of the promise
validateFileSignature(f, expectedTypes) ==
    LET header == Header(SubSeq(FileBytes(f), 1, 8))
    IN  \E type \in expectedTypes : StartsWith(header, FILE_SIGNATURES[type])

\* the extension validateImageFile computes from file.name
FileExt(f) ==
    LET lower == [i \in 1..Len(FileName(f)) |-> ToLowerCase(FileName(f)[i])]
    IN  Slice(Slice(lower, LastIndexOf(lower, ".")), 1)

ImageExts == {<<"p","n","g">>, <<"j","p","g">>, <<"j","p","e","g">>}

NoError == "(no error)"

\* the synchronous part of validateImageFile: the message of the Error it
\* throws before it reads the file, or NoError
validateImageFileSync(f) ==
    IF FileSize(f) > MAX_IMAGE_SIZE
    THEN "Image too large! Maximum size is 10MB"
    ELSE IF FileExt(f) \notin ImageExts
    THEN "Invalid file extension. Only PNG and JPEG allowed."
    ELSE NoError

\* the part of validateImageFile after the signature has been read
validateImageFileAsync(f) ==
    IF ~validateFileSignature(f, {"png", "jpg", "jpeg"})
    THEN "File content does not match extension. Possible file spoofing detected."
    ELSE NoError

\* the synchronous part of validateGLBFile
validateGLBFileSync(f) ==
    IF FileSize(f) > MAX_FILE_SIZE
    THEN "File too large! Maximum size is 50MB"
    ELSE IF ~EndsWith(Lower(FileName(f)), <<".", "g", "l", "b">>)
    THEN "Invalid file extension. Only .glb files allowed."
    ELSE NoError

\* the part of validateGLBFile after the signature has been read
validateGLBFileAsync(f) ==
    IF ~validateFileSignature(f, {"glb"})
    THEN "File is not a valid GLB file. Possible file spoofing detected."
    ELSE NoError

-----------------------------------------------------------------------------
(* Rasters and the 2D canvas *)

InRect(x, y, r) ==
    /\ r[1] <= x /\ x < r[1] + r[3]
    /\ r[2] <= y /\ y < r[2] + r[4]

\* pixel (x, y) lies in an upper-body rectangle of the layout
InUpperBody(map, x, y) ==
    \E k \in DOMAIN map.top_parts : InRect(x, y, map.top_parts[k].rect)

\* the colour of pixel (x, y) of a decoded image; a read outside the image
\* yields nothing, which is transparent
ImagePixel(img, x, y) ==
    IF x < 0 \/ y < 0 \/ x >= img.width \/ y >= img.height THEN Transparent
    ELSE CASE img.kind = "white"    -> White
           [] img.kind = "gradient" -> <<"px", x, y>>
           [] img.kind = "marker"   -> IF x = MarkerX /\ y = MarkerY THEN Red ELSE White
           [] img.kind = "polyShirt" ->
                 IF InUpperBody(polyMapData, x, y) THEN White ELSE Transparent
           [] img.kind = "rbxShirt" ->
                 IF InUpperBody(rbxMapData, x, y) THEN White ELSE Transparent

\* variant: the copy mirrors the rectangle horizontally
SourceSampleMirrored(draw, x, y) ==
    <<draw.s[1] + (((draw.d[3] - 1 - (x - draw.d[1])) * draw.s[3]) \div draw.d[3]),
      draw.s[2] + (((y - draw.d[2]) * draw.s[4]) \div draw.d[4])>>

\* the source pixel that drawImage(img, sx, sy, sw, sh, dx, dy, dw, dh)
\* maps to the destination pixel (x, y) of the rectangle it writes
SourceSample(draw, x, y) ==
    <<draw.s[1] + (((x - draw.d[1]) * draw.s[3]) \div draw.d[3]),
      draw.s[2] + (((y - draw.d[2]) * draw.s[4]) \div draw.d[4])>>

\* what one drawImage call paints onto pixel (x, y): the part of the source
\* rectangle outside the image paints nothing
DrawnPixel(img, draw, x, y) ==
    IF InRect(x, y, draw.d)
    THEN LET sample == SourceSample(draw, x, y)
         IN  ImagePixel(img, sample[1], sample[2])
    ELSE Transparent

\* the drawImage calls, by position in call order, that paint pixel (x, y)
Painting(img, draws, x, y) ==
    {k \in DOMAIN draws : DrawnPixel(img, draws[k], x, y) # Transparent}

\* the colour of pixel (x, y) after the drawImage calls: the canvas starts
\* transparent and the last call that paints the pixel decides (the pixels
\* of the modelled images are opaque or absent)
PixelAfter(img, draws, x, y) ==
    LET ks == Painting(img, draws, x, y)
    IN  IF ks = {} THEN Transparent
        ELSE DrawnPixel(img, draws[CHOOSE k \in ks : \A j \in ks : j <= k], x, y)

\* the colour of pixel (x, y) of the canvas; the canvas has no pixel outside
\* its width and height
CanvasPixel(img, canvas, x, y) ==
    IF x < 0 \/ y < 0 \/ x >= canvas.width \/ y >= canvas.height THEN Transparent
    ELSE PixelAfter(img, canvas.draws, x, y)

NoCanvas == [width |-> 0, height |-> 0, draws |-> <<>>]

-----------------------------------------------------------------------------
(* The conversion: the part of the click handler between the decode and    *)
(* canvas.toBlob                                                           *)

\* mode === 'rbx2poly'
IsRbx2Poly(mode) == mode = "rbx2poly"

\* document.querySelector('input[name="convertMode"]:checked')?.value || 'rbx2poly'
\* where checked is the value of the checked radio button, "" when none is
ReadMode(checked) == IF checked = "" THEN "rbx2poly" ELSE checked

\* variant: the source layout is the Roblox layout in both directions
SrcMapAlwaysRbx(mode, rbx, poly) == rbx

SrcMap(mode, rbx, poly) == IF IsRbx2Poly(mode) THEN rbx ELSE poly
DestMap(mode, rbx, poly) == IF IsRbx2Poly(mode) THEN poly ELSE rbx

\* variant: the canvas takes the width of the source image
CanvasWidthFromImage(mode, img) == img.width

CanvasWidth(mode, img) == IF IsRbx2Poly(mode) THEN PolyCanvasWidth ELSE RbxCanvasWidth

\* variant: the two heights exchanged
CanvasHeightSwapped(mode, img) ==
    IF IsRbx2Poly(mode) THEN RbxCanvasHeight ELSE PolyCanvasHeight

CanvasHeight(mode, img) == IF IsRbx2Poly(mode) THEN PolyCanvasHeight ELSE RbxCanvasHeight

\* destMap[category][index]: undefined past the end of the array
Undefined == [rect |-> <<>>]
\* variant: every source region is drawn to the first destination region
DestNodeFirst(destMap, category, index) == destMap[category][1]

DestNode(destMap, category, index) ==
    IF index \in DOMAIN destMap[category] THEN destMap[category][index] ELSE Undefined

\* variant: no test of destNode
SkipRegionNever(destNode) == FALSE

\* if (!destNode) return;
SkipRegion(destNode) == destNode = Undefined

\* variant: the first region is drawn to the second destination region
DestIndexShifted(index) == IF index = 1 THEN 2 ELSE index

\* the index of the region of the destination a source region is drawn to
DestIndex(index) == index

\* the category of the destination a source category is drawn to
DestCategory(category) == category

\* variant: source and destination rectangle exchanged in the call
DrawImageSwapped(srcRect, destRect) == [s |-> destRect, d |-> srcRect]

\* ctx.drawImage(img, sx, sy, sw, sh, dx, dy, dw, dh): the source rectangle
\* s and the destination rectangle d of the call
DrawImage(srcRect, destRect) == [s |-> srcRect, d |-> destRect]

\* the drawImage calls of one category, in call order; threw is TRUE when
\* the destructuring of an undefined destNode raised a TypeError
RECURSIVE BlitCategory(_, _, _, _)
BlitCategory(srcMap, destMap, category, index) ==
    IF index > Len(srcMap[category]) THEN [draws |-> <<>>, threw |-> FALSE]
    ELSE LET srcNode == srcMap[category][index]
             destNode == DestNode(destMap, DestCategory(category), DestIndex(index))
             rest == BlitCategory(srcMap, destMap, category, index + 1)
         IN  IF SkipRegion(destNode) THEN rest
             ELSE IF destNode = Undefined THEN [draws |-> <<>>, threw |-> TRUE]
             ELSE [draws |-> <<DrawImage(srcNode.rect, destNode.rect)>> \o rest.draws,
                   threw |-> rest.threw]

\* ['top_parts', 'bottom_parts'].forEach(...)
Blit(srcMap, destMap) ==
    LET top == BlitCategory(srcMap, destMap, Categories[1], 1)
        bottom == BlitCategory(srcMap, destMap, Categories[2], 1)
    IN  IF top.threw THEN top
        ELSE [draws |-> top.draws \o bottom.draws, threw |-> bottom.threw]

TypeErrorMessage == "Cannot read properties of undefined (reading 'rect')"

-----------------------------------------------------------------------------
(* loadImageSafely: the promise, the timer and the image element           *)

\* resolve / reject of a promise: only the first call settles it
Settle(promise, outcome) == IF promise = "pending" THEN outcome ELSE promise

\* the error a promise is rejected with: kept from the first rejection
Reject(c, message) ==
    [c EXCEPT !.error = IF c.promise = "pending" THEN message ELSE @,
              !.promise = Settle(@, "rejected")]

\* URL.revokeObjectURL(img.src): revokes the object URL only while img.src
\* still holds it
RevokeImgSrc(c) ==
    [c EXCEPT !.url = IF c.imgSrc = "blob" /\ @ = "live" THEN "revoked" ELSE @]

\* variant: only an image of the Roblox template size is accepted
TooLargeStrict(img) == img.width # RbxCanvasWidth \/ img.height # RbxCanvasHeight

TooLarge(img) == img.width > MaxImageDim \/ img.height > MaxImageDim

\* img.onload
imgOnload(c) ==
    LET cleared == [c EXCEPT !.timer = FALSE, !.img = "loaded"]
    IN  IF TooLarge(Raster(c.file))
        THEN Reject(RevokeImgSrc(cleared), "Image dimensions too large (max 8192x8192)")
        ELSE [cleared EXCEPT !.promise = Settle(@, "resolved")]

\* variant: img.onerror resolves the promise with the broken image
imgOnerrorResolves(c) ==
    [c EXCEPT !.timer = FALSE, !.img = "error", !.promise = Settle(@, "resolved")]

\* img.onerror
imgOnerror(c) ==
    Reject(RevokeImgSrc([c EXCEPT !.timer = FALSE, !.img = "error"]),
           "Failed to load image")

\* variant: the timer callback drops the image source without rejecting
onTimeoutNoReject(c) == [c EXCEPT !.timer = FALSE, !.imgSrc = ""]

\* the callback of setTimeout
onTimeout(c) ==
    Reject([c EXCEPT !.timer = FALSE, !.imgSrc = ""], "Image load timeout")

\* the executor of the promise: new Image(), setTimeout, img.src = ...;
\* urlOk is FALSE when URL.createObjectURL throws
loadImageSafely(c, urlOk) ==
    LET started == [c EXCEPT !.promise = "pending", !.timer = TRUE]
    IN  IF urlOk
        THEN [started EXCEPT !.imgSrc = "blob", !.url = "live"]
        ELSE Reject([started EXCEPT !.timer = FALSE], "Failed to create image URL")

-----------------------------------------------------------------------------
(* The click handler of convertBtn *)

Status(message, type) == [message |-> message, type |-> type]

\* the locals of one run of the handler
NewConv(f) ==
    [pc |-> "validating", file |-> f, mode |-> "", promise |-> "none",
     error |-> NoError, timer |-> FALSE, img |-> "none", imgSrc |-> "",
     url |-> "none",
     late |-> FALSE, canvas |-> NoCanvas, download |-> ""]

\* catch (error) { updateStatus(error.message, 'error'); ... }
Catch(c, message) == [c EXCEPT !.pc = "aborted", !.error = message]

\* variant: the runs draw onto one canvas that is not cleared between them
AfterDecodeSharedCanvas(c, rbx, poly) ==
    IF c.promise = "rejected" THEN Catch(c, c.error)
    ELSE IF c.promise # "resolved" THEN c
    ELSE LET img == Raster(c.file)
             blit == Blit(SrcMap(c.mode, rbx, poly), DestMap(c.mode, rbx, poly))
             earlier == {k \in DOMAIN convs : convs[k].canvas # NoCanvas}
             kept == IF earlier = {} THEN <<>>
                     ELSE convs[CHOOSE k \in earlier : \A j \in earlier : j <= k].canvas.draws
         IN  IF blit.threw THEN Catch(c, TypeErrorMessage)
             ELSE [RevokeImgSrc(c) EXCEPT
                      !.pc = "encoding",
                      !.canvas = [width |-> CanvasWidth(c.mode, img),
                                  height |-> CanvasHeight(c.mode, img),
                                  draws |-> kept \o blit.draws]]

\* the handler from the end of "await loadImageSafely(file)" to the call of
\* canvas.toBlob; it stays suspended while the promise is pending
AfterDecode(c, rbx, poly) ==
    IF c.promise = "rejected" THEN Catch(c, c.error)
    ELSE IF c.promise # "resolved" THEN c
    ELSE LET img == Raster(c.file)
             blit == Blit(SrcMap(c.mode, rbx, poly), DestMap(c.mode, rbx, poly))
         IN  IF blit.threw THEN Catch(c, TypeErrorMessage)
             ELSE [RevokeImgSrc(c) EXCEPT
                      !.pc = "encoding",
                      !.canvas = [width |-> CanvasWidth(c.mode, img),
                                  height |-> CanvasHeight(c.mode, img),
                                  draws |-> blit.draws]]

\* the status the handler leaves behind when it stops at the catch or at
\* toBlob
StatusAfter(c) ==
    IF c.pc = "aborted" THEN Status(c.error, "error")
    ELSE Status("Converting...", "loading")

\* variant: the two file names exchanged
DownloadNameSwapped(mode) ==
    IF IsRbx2Poly(mode) THEN "roblox_template.png" ELSE "polytoria_template.png"

\* link.download
DownloadName(mode) ==
    IF IsRbx2Poly(mode) THEN "polytoria_template.png" ELSE "roblox_template.png"

\* the values the checked convertMode radio button can have when the
\* handler reads it; "" stands for no checked button
ModeInputs == {"rbx2poly", "poly2rbx", "nonexistent", ""}

Running(i) == i \in DOMAIN convs

\* click without a selected file
ClickNoFile ==
    /\ status' = Status("Please select a template image first!", "error")
    /\ UNCHANGED <<convs, rbxMap, polyMap, avatarVars>>

\* click with a selected file, up to the first suspension of the handler:
\* the size and extension checks of validateImageFile run at once; n bounds
\* the number of runs of the handler
ClickUpTo(f, n) ==
    /\ Len(convs) < n
    /\ LET err == validateImageFileSync(f)
       IN  IF err # NoError
           THEN /\ convs' = Append(convs, Catch(NewConv(f), err))
                /\ status' = Status(err, "error")
           ELSE /\ convs' = Append(convs, NewConv(f))
                /\ UNCHANGED status
    /\ UNCHANGED <<rbxMap, polyMap, avatarVars>>

Click(f) == ClickUpTo(f, MaxConv)

\* reader.onload of validateFileSignature, and the handler up to its
\* suspension at "await loadImageSafely(file)"
SignatureRead(i, checked, urlOk) ==
    /\ Running(i)
    /\ convs[i].pc = "validating"
    /\ LET c == convs[i]
           err == validateImageFileAsync(c.file)
           loading == loadImageSafely([c EXCEPT !.mode = ReadMode(checked),
                                                !.pc = "decoding"], urlOk)
           next == IF err # NoError THEN Catch(c, err)
                   ELSE IF loading.promise = "rejected" THEN AfterDecode(loading, rbxMap, polyMap)
                   ELSE loading
       IN  /\ convs' = [convs EXCEPT ![i] = next]
           /\ status' = StatusAfter(next)
    /\ UNCHANGED <<rbxMap, polyMap, avatarVars>>

\* the shortened copies of a layout: each category loses its last k regions
Shortened(map, k) ==
    [top_parts |-> SubSeq(map.top_parts, 1, Len(map.top_parts) - k),
     bottom_parts |-> SubSeq(map.bottom_parts, 1, Len(map.bottom_parts) - k)]

\* reader.onerror of validateFileSignature
SignatureReadError(i) ==
    /\ Running(i)
    /\ convs[i].pc = "validating"
    /\ convs' = [convs EXCEPT ![i] = Catch(@, "File read error")]
    /\ status' = Status("File read error", "error")
    /\ UNCHANGED <<rbxMap, polyMap, avatarVars>>

\* variant: the handler consumes the source layout while it draws, removing
\* the last region of each of its categories
ImgOnloadPopsRegion(i) ==
    /\ Running(i)
    /\ convs[i].pc = "decoding"
    /\ Decodable(convs[i].file)
    /\ LET next == AfterDecode(imgOnload(convs[i]), rbxMap, polyMap)
       IN  /\ convs' = [convs EXCEPT ![i] = next]
           /\ status' = IF next.pc = "aborted" THEN StatusAfter(next) ELSE status
           /\ rbxMap' = IF IsRbx2Poly(next.mode) THEN Shortened(rbxMap, 1) ELSE rbxMap
           /\ polyMap' = IF IsRbx2Poly(next.mode) THEN polyMap ELSE Shortened(polyMap, 1)
    /\ UNCHANGED avatarVars

\* the image has been decoded while the handler waits: img.onload, then
\* the rest of the handler up to canvas.toBlob
ImgOnload(i) ==
    /\ Running(i)
    /\ convs[i].pc = "decoding"
    /\ Decodable(convs[i].file)
    /\ LET next == AfterDecode(imgOnload(convs[i]), rbxMap, polyMap)
       IN  /\ convs' = [convs EXCEPT ![i] = next]
           /\ status' = IF next.pc = "aborted" THEN StatusAfter(next) ELSE status
    /\ UNCHANGED <<rbxMap, polyMap, avatarVars>>

\* the decoder gave up while the handler waits: img.onerror, then the catch
ImgOnerror(i) ==
    /\ Running(i)
    /\ convs[i].pc = "decoding"
    /\ ~Decodable(convs[i].file)
    /\ LET next == AfterDecode(imgOnerror(convs[i]), rbxMap, polyMap)
       IN  /\ convs' = [convs EXCEPT ![i] = next]
           /\ status' = IF next.pc = "aborted" THEN StatusAfter(next) ELSE status
    /\ UNCHANGED <<rbxMap, polyMap, avatarVars>>

\* the timer of loadImageSafely fires while the handler waits
Timeout(i) ==
    /\ Running(i)
    /\ convs[i].pc = "decoding"
    /\ convs[i].timer
    /\ LET next == AfterDecode(onTimeout(convs[i]), rbxMap, polyMap)
       IN  /\ convs' = [convs EXCEPT ![i] = next]
           /\ status' = IF next.pc = "aborted" THEN StatusAfter(next) ELSE status
    /\ UNCHANGED <<rbxMap, polyMap, avatarVars>>

TimedOut(c) == c.pc = "aborted" /\ c.error = "Image load timeout"

\* a decode that completes after the timer has fired: img.onload runs, the
\* handler has already left the await
LateOnload(i) ==
    /\ Running(i)
    /\ TimedOut(convs[i])
    /\ ~convs[i].late
    /\ Decodable(convs[i].file)
    /\ convs' = [convs EXCEPT ![i] = [imgOnload(@) EXCEPT !.late = TRUE]]
    /\ UNCHANGED <<status, rbxMap, polyMap, avatarVars>>

\* the error event that follows img.src = '' after the timer has fired
LateOnerror(i) ==
    /\ Running(i)
    /\ TimedOut(convs[i])
    /\ ~convs[i].late
    /\ convs' = [convs EXCEPT ![i] = [imgOnerror(@) EXCEPT !.late = TRUE]]
    /\ UNCHANGED <<status, rbxMap, polyMap, avatarVars>>

\* the callback of canvas.toBlob; blob is FALSE for a null blob, urlOk is
\* FALSE when safeCreateObjectURL returns null
ToBlobCallback(i, blob, urlOk) ==
    /\ Running(i)
    /\ convs[i].pc = "encoding"
    /\ IF ~blob
       THEN /\ convs' = [convs EXCEPT ![i].pc = "failed", ![i].error = "Conversion failed"]
            /\ status' = Status("Conversion failed", "error")
       ELSE IF ~urlOk
       THEN /\ convs' = [convs EXCEPT ![i].pc = "failed", ![i].error = "Failed to create download"]
            /\ status' = Status("Failed to create download", "error")
       ELSE /\ convs' = [convs EXCEPT ![i].pc = "done",
                                      ![i].download = DownloadName(convs[i].mode)]
            /\ status' = Status("Conversion complete!", "success")
    /\ UNCHANGED <<rbxMap, polyMap, avatarVars>>

-----------------------------------------------------------------------------
(* The 3D preview: textures, materials and the rig.  The rigs are assets   *)
(* outside the source: a rig is modelled by the name of its root node and  *)
(* by three meshes, one named by each entry of BODY_PARTS.                 *)

\* null as the value of a texture variable
NoTexture == [source |-> "(null)", flipY |-> TRUE, encoding |-> "(null)"]

\* a texture as the handlers set it up: flipY = false, sRGBEncoding
NewTexture(source) == [source |-> source, flipY |-> FALSE, encoding |-> "sRGB"]

DecalTexture == NewTexture("assets/face/Smile.png")

\* { shirt: null, pants: null, face: null }
NoTextures == [shirt |-> NoTexture, pants |-> NoTexture, face |-> NoTexture]

\* the keys of activeTextures in the order of "for (const category in ...)"
TextureCategories == <<"shirt", "pants", "face">>

BODY_PARTS ==
    [shirt |-> << <<"t","o","r","s","o">>, <<"l","e","f","t","a","r","m">>,
                  <<"r","i","g","h","t","a","r","m">>,
                  <<"l","e","f","t","h","a","n","d">>,
                  <<"r","i","g","h","t","h","a","n","d">> >>,
     pants |-> << <<"l","e","f","t","l","e","g">>, <<"r","i","g","h","t","l","e","g">>,
                  <<"l","e","f","t","f","o","o","t">>,
                  <<"r","i","g","h","t","f","o","o","t">> >>,
     face  |-> << <<"h","e","a","d">>, <<"f","a","c","e">> >>]

\* the values of the colour input #skinTone; the first is the initial
\* value of currentSkinTone
DefaultSkinTone == "cccccc"
SkinTones == {"cccccc", "8d5524"}

\* the meshes of a rig and their names
MeshIds == {"Torso", "LeftLeg", "Head"}
MeshName(m) ==
    CASE m = "Torso"   -> <<"T","o","r","s","o">>
      [] m = "LeftLeg" -> <<"L","e","f","t","L","e","g">>
      [] m = "Head"    -> <<"H","e","a","d">>

\* the names gltf.scene can have
SceneNames == {"Scene", "Armature"}

\* createMaterial(color, texture): the material copies the colour
createMaterial(color, texture) == [skin |-> color, map |-> texture]

\* load is the call of loadModelFromPath whose gltf.scene the object is
NoModel ==
    [load |-> 0, path |-> "(null)", root |-> "(null)", meshes |-> [m \in {} |-> 0]]

\* the meshes for which
\* BODY_PARTS[category]?.some(part => meshName.includes(part)) holds
BodyPartMeshes ==
    [category \in {"shirt", "pants", "face"} |->
        {m \in MeshIds : \E i \in DOMAIN BODY_PARTS[category] :
            Includes(Lower(MeshName(m)), BODY_PARTS[category][i])}]

IsBodyPart(category, m) == m \in BodyPartMeshes[category]

\* the meshes for which
\* meshName.includes('head') || meshName.includes('face') holds
FaceMeshes ==
    {m \in MeshIds : \/ Includes(Lower(MeshName(m)), <<"h","e","a","d">>)
                     \/ Includes(Lower(MeshName(m)), <<"f","a","c","e">>)}

IsFaceMesh(m) == m \in FaceMeshes

\* applyFaceTexture
applyFaceTexture(model, face, skin) ==
    IF model = NoModel \/ face = NoTexture THEN model
    ELSE [model EXCEPT !.meshes =
            [m \in MeshIds |-> IF IsFaceMesh(m) THEN createMaterial(skin, face)
                               ELSE model.meshes[m]]]

\* the name of the mesh of an accessory file and the material the file
\* gives it
UgcMeshName(f) ==
    IF f = "mask" THEN <<"F","a","c","e","M","a","s","k">> ELSE <<"H","a","t">>

UgcMaterial(f) == [skin |-> "(material of the file)", map |-> NoTexture]

\* applyFaceTexture on the meshes of the accessories, which are descendants
\* of polyModel: the traversal does not test userData.isUGC
applyFaceTextureToUgc(equipped, model, face, skin) ==
    IF model = NoModel \/ face = NoTexture THEN equipped
    ELSE [i \in DOMAIN equipped |->
            LET meshName == Lower(UgcMeshName(equipped[i].fileName))
            IN  IF \/ Includes(meshName, <<"h","e","a","d">>)
                   \/ Includes(meshName, <<"f","a","c","e">>)
                THEN [equipped[i] EXCEPT !.material = createMaterial(skin, face)]
                ELSE equipped[i]]

\* applyTextureToCategory
applyTextureToCategory(model, category, texture, skin) ==
    IF model = NoModel \/ texture = NoTexture THEN model
    ELSE [model EXCEPT !.meshes =
            [m \in MeshIds |-> IF IsBodyPart(category, m) THEN createMaterial(skin, texture)
                               ELSE model.meshes[m]]]

\* the loop of the load callback over the keys of activeTextures, from
\* key i on
RECURSIVE ReapplyTextures(_, _, _, _)
ReapplyTextures(model, active, skin, i) ==
    IF i > Len(TextureCategories) THEN model
    ELSE ReapplyTextures(
            applyTextureToCategory(model, TextureCategories[i],
                                   active[TextureCategories[i]], skin),
            active, skin, i + 1)

\* variant: the keepExisting loop finds no texture
ExistingTextureNone(active, m, i) == NoTexture

\* the keepExisting loop of refreshModelTextures, from key i on: the
\* texture of the first category whose body parts name the mesh
RECURSIVE ExistingTexture(_, _, _)
ExistingTexture(active, m, i) ==
    IF i > Len(TextureCategories) THEN NoTexture
    ELSE IF IsBodyPart(TextureCategories[i], m) THEN active[TextureCategories[i]]
    ELSE ExistingTexture(active, m, i + 1)

\* appliedTexture of refreshModelTextures for one mesh
AppliedTexture(active, face, keepExisting, currentCategory, m) ==
    LET found == IF IsBodyPart(currentCategory, m) THEN active[currentCategory]
                 ELSE IF keepExisting THEN ExistingTexture(active, m, 1)
                 ELSE NoTexture
    IN  IF found = NoTexture /\ IsFaceMesh(m) THEN face ELSE found

refreshModelTextures(model, active, face, skin, keepExisting, currentCategory) ==
    IF model = NoModel THEN model
    ELSE [model EXCEPT !.meshes =
            [m \in MeshIds |->
                createMaterial(skin,
                    AppliedTexture(active, face, keepExisting, currentCategory, m))]]

\* variant: the handler copies the colour to material.color only, which a
\* material with a map does not use
skinInputTraverseColorOnly(model, tone) ==
    IF model = NoModel THEN model
    ELSE [model EXCEPT !.meshes =
            [m \in MeshIds |-> IF model.meshes[m].map = NoTexture
                               THEN [model.meshes[m] EXCEPT !.skin = tone]
                               ELSE model.meshes[m]]]

\* the traversal of the input handler of #skinTone
skinInputTraverse(model, tone) ==
    IF model = NoModel THEN model
    ELSE [model EXCEPT !.meshes =
            [m \in MeshIds |-> [model.meshes[m] EXCEPT !.skin = tone]]]

\* the traversal of the click handler of clearBtn
clearTraverse(model, skin) ==
    IF model = NoModel THEN model
    ELSE [model EXCEPT !.meshes = [m \in MeshIds |-> createMaterial(skin, NoTexture)]]

\* the traversal of the click handler of clearBtn on the meshes of the
\* accessories: it does not test userData.isUGC
clearTraverseUgc(equipped, skin) ==
    [i \in DOMAIN equipped |->
        [equipped[i] EXCEPT !.material = createMaterial(skin, NoTexture)]]

-----------------------------------------------------------------------------
(* Loading the rig *)

\* getModelPath
getModelPath(gender, rig) ==
    IF rig = "legacy"
    THEN (IF gender = "female" THEN "assets/legacy_rigs/old_character_female.glb"
          ELSE "assets/legacy_rigs/old_character.glb")
    ELSE (IF gender = "female" THEN "assets/rigs/character_female.glb"
          ELSE "assets/rigs/character.glb")


\* the accessories loadModelFromPath saves: clones of the equipped ones
\* with the name of their parent
SavedUgc(model, equipped) == IF model # NoModel THEN equipped ELSE <<>>

\* scene.remove(polyModel), on the records of the loads: inScene tells
\* whether the gltf.scene of a load is a child of scene
SceneRemove(loads, model) ==
    IF model # NoModel THEN [loads EXCEPT ![model.load].inScene = FALSE] ELSE loads

\* loadModelFromPath up to the call of loader.load
loadModelFromPath(path) ==
    /\ gltfLoads' = Append(SceneRemove(gltfLoads, polyModel),
                           [path |-> path, state |-> "loading", inScene |-> FALSE,
                            savedUgc |-> SavedUgc(polyModel, equippedUgc)])
    /\ status' = Status("Loading model...", "loading")

\* the rig the load callback makes of gltf.scene
LoadedRig(k, path, root, skin) ==
    [load |-> k, path |-> path, root |-> root,
     meshes |-> [m \in MeshIds |-> createMaterial(skin, NoTexture)]]

\* the names of the nodes polyModel.traverse visits
NodeNames(model) == {model.root} \cup MeshIds

\* the saved accessories the load callback attaches again: those whose
\* parent name is the name of a node of the new rig
Reattach(saved, model) ==
    SelectSeq(saved, LAMBDA u : u.parentName \in NodeNames(model))

\* the load handler of window: the first rig and the timer of the face decal
WindowLoad ==
    /\ faceDecal = "unset"
    /\ loadModelFromPath("assets/rigs/character.glb")
    /\ faceDecal' = "armed"
    /\ UNCHANGED <<convs, rbxMap, polyMap, polyModel, equippedUgc, ugcLoads,
                   currentSkinTone, activeTextures, faceTexture, uploads,
                   clothingType>>

\* the change handler of the characterGender and rigType radio buttons
RigChange(gender, rig) ==
    /\ faceDecal # "unset"
    /\ Len(gltfLoads) < MaxModelLoads
    /\ loadModelFromPath(getModelPath(gender, rig))
    /\ UNCHANGED <<convs, rbxMap, polyMap, polyModel, equippedUgc, ugcLoads,
                   currentSkinTone, activeTextures, faceTexture, faceDecal,
                   uploads, clothingType>>

\* the load callback of loader.load; root is the name of gltf.scene.  The
\* saved accessories are not used after the callback.
GltfLoaded(k, root) ==
    /\ k \in DOMAIN gltfLoads
    /\ gltfLoads[k].state = "loading"
    /\ LET fresh == LoadedRig(k, gltfLoads[k].path, root, currentSkinTone)
           faced == applyFaceTexture(fresh, faceTexture, currentSkinTone)
       IN  /\ polyModel' = ReapplyTextures(faced, activeTextures, currentSkinTone, 1)
           /\ equippedUgc' = applyFaceTextureToUgc(Reattach(gltfLoads[k].savedUgc, fresh),
                                                   fresh, faceTexture, currentSkinTone)
    /\ gltfLoads' = [gltfLoads EXCEPT ![k].state = "loaded", ![k].savedUgc = <<>>,
                                      ![k].inScene = TRUE]
    /\ status' = Status("Model loaded", "success")
    /\ UNCHANGED <<convs, rbxMap, polyMap, ugcLoads, currentSkinTone,
                   activeTextures, faceTexture, faceDecal, uploads, clothingType>>

\* the error callback of loader.load
GltfFailed(k) ==
    /\ k \in DOMAIN gltfLoads
    /\ gltfLoads[k].state = "loading"
    /\ gltfLoads' = [gltfLoads EXCEPT ![k].state = "failed", ![k].savedUgc = <<>>]
    /\ status' = Status("Failed to load model", "error")
    /\ UNCHANGED <<convs, rbxMap, polyMap, polyModel, equippedUgc, ugcLoads,
                   currentSkinTone, activeTextures, faceTexture, faceDecal,
                   uploads, clothingType>>

-----------------------------------------------------------------------------
(* The face decal *)

\* the timer of the window load handler: loadFaceDecal
FaceDecalTimer ==
    /\ faceDecal = "armed"
    /\ faceDecal' = IF polyModel = NoModel THEN "skipped" ELSE "loading"
    /\ UNCHANGED <<convs, status, rbxMap, polyMap, polyModel, gltfLoads,
                   equippedUgc, ugcLoads, currentSkinTone, activeTextures,
                   faceTexture, uploads, clothingType>>

\* the load callback of textureLoader.load
FaceDecalLoaded ==
    /\ faceDecal = "loading"
    /\ faceDecal' = "loaded"
    /\ faceTexture' = DecalTexture
    /\ polyModel' = applyFaceTexture(polyModel, DecalTexture, currentSkinTone)
    /\ equippedUgc' = applyFaceTextureToUgc(equippedUgc, polyModel, DecalTexture,
                                            currentSkinTone)
    /\ UNCHANGED <<convs, status, rbxMap, polyMap, gltfLoads,
                   ugcLoads, currentSkinTone, activeTextures, uploads,
                   clothingType>>

\* the error callback of textureLoader.load
FaceDecalFailed ==
    /\ faceDecal = "loading"
    /\ faceDecal' = "failed"
    /\ UNCHANGED <<convs, status, rbxMap, polyMap, polyModel, gltfLoads,
                   equippedUgc, ugcLoads, currentSkinTone, activeTextures,
                   faceTexture, uploads, clothingType>>

-----------------------------------------------------------------------------
(* Skin tone and clothing textures *)

ClothingTypes == {"shirt", "pants", "face"}

\* the user selects an option of #clothingType
SelectClothing(type) ==
    /\ clothingType' = type
    /\ UNCHANGED <<convs, status, rbxMap, polyMap, polyModel, gltfLoads,
                   equippedUgc, ugcLoads, currentSkinTone, activeTextures,
                   faceTexture, faceDecal, uploads>>

\* the input handler of #skinTone
SkinInput(tone) ==
    /\ currentSkinTone' = tone
    /\ polyModel' = skinInputTraverse(polyModel, tone)
    /\ UNCHANGED <<convs, status, rbxMap, polyMap, gltfLoads, equippedUgc,
                   ugcLoads, activeTextures, faceTexture, faceDecal, uploads,
                   clothingType>>

\* the click handler of clearBtn
ClearTextures ==
    /\ IF polyModel = NoModel
       THEN UNCHANGED <<activeTextures, faceTexture, polyModel, equippedUgc, status>>
       ELSE /\ activeTextures' = NoTextures
            /\ faceTexture' = NoTexture
            /\ polyModel' = clearTraverse(polyModel, currentSkinTone)
            /\ equippedUgc' = clearTraverseUgc(equippedUgc, currentSkinTone)
            /\ status' = Status("Textures cleared", "info")
    /\ UNCHANGED <<convs, rbxMap, polyMap, gltfLoads, ugcLoads,
                   currentSkinTone, faceDecal, uploads, clothingType>>

\* the locals of one run of the change handler of #upload
NewUpload(f) ==
    [pc |-> "validating", file |-> f, promise |-> "none", error |-> NoError,
     timer |-> FALSE, img |-> "none", imgSrc |-> "", url |-> "none"]

\* the textures after activeTextures[clothingType] = texture
ActiveAfterUpload(active, type, texture) == [active EXCEPT ![type] = texture]

\* if (clothingType === 'face') faceTexture = texture
FaceAfterUpload(face, type, texture) == IF type = "face" THEN texture ELSE face

\* the change handler of #upload from the end of "await loadImageSafely"
\* on; u is the run with its promise settled
UploadAfterDecode(k, u, keepExisting) ==
    IF u.promise = "rejected"
    THEN /\ uploads' = [uploads EXCEPT ![k] = Catch(u, u.error)]
         /\ status' = Status(u.error, "error")
         /\ UNCHANGED <<activeTextures, faceTexture, polyModel>>
    ELSE LET texture == NewTexture(u.file)
             active == ActiveAfterUpload(activeTextures, clothingType, texture)
             face == FaceAfterUpload(faceTexture, clothingType, texture)
         IN  /\ activeTextures' = active
             /\ faceTexture' = face
             /\ polyModel' = refreshModelTextures(polyModel, active, face,
                                 currentSkinTone, keepExisting, clothingType)
             /\ uploads' = [uploads EXCEPT ![k] = [RevokeImgSrc(u) EXCEPT !.pc = "applied"]]
             /\ status' = Status("Texture applied successfully!", "success")

\* change of #upload with a file, up to the first suspension of the
\* handler; n bounds the number of runs of the handler
UploadChangeUpTo(f, n) ==
    /\ Len(uploads) < n
    /\ IF polyModel = NoModel
       THEN /\ status' = Status("Please load a character model first!", "error")
            /\ UNCHANGED uploads
       ELSE LET err == validateImageFileSync(f)
            IN  IF err # NoError
                THEN /\ uploads' = Append(uploads, Catch(NewUpload(f), err))
                     /\ status' = Status(err, "error")
                ELSE /\ uploads' = Append(uploads, NewUpload(f))
                     /\ UNCHANGED status
    /\ UNCHANGED <<convs, rbxMap, polyMap, polyModel, gltfLoads, equippedUgc,
                   ugcLoads, currentSkinTone, activeTextures, faceTexture,
                   faceDecal, clothingType>>

UploadChange(f) == UploadChangeUpTo(f, MaxUploads)

\* reader.onload of validateFileSignature, and the handler up to its
\* suspension at "await loadImageSafely(file)"
UploadSignatureRead(k, urlOk) ==
    /\ k \in DOMAIN uploads
    /\ uploads[k].pc = "validating"
    /\ LET u == uploads[k]
           err == validateImageFileAsync(u.file)
           loading == loadImageSafely([u EXCEPT !.pc = "decoding"], urlOk)
           next == IF err # NoError THEN Catch(u, err)
                   ELSE IF loading.promise = "rejected" THEN Catch(loading, loading.error)
                   ELSE loading
       IN  /\ uploads' = [uploads EXCEPT ![k] = next]
           /\ status' = IF next.pc = "aborted" THEN Status(next.error, "error") ELSE status
    /\ UNCHANGED <<convs, rbxMap, polyMap, polyModel, gltfLoads, equippedUgc,
                   ugcLoads, currentSkinTone, activeTextures, faceTexture,
                   faceDecal, clothingType>>

\* reader.onerror of validateFileSignature
UploadSignatureReadError(k) ==
    /\ k \in DOMAIN uploads
    /\ uploads[k].pc = "validating"
    /\ uploads' = [uploads EXCEPT ![k] = Catch(@, "File read error")]
    /\ status' = Status("File read error", "error")
    /\ UNCHANGED <<convs, rbxMap, polyMap, polyModel, gltfLoads, equippedUgc,
                   ugcLoads, currentSkinTone, activeTextures, faceTexture,
                   faceDecal, clothingType>>

\* img.onload while the handler waits, and the rest of the handler;
\* keepExisting is the state of the #keepTextures checkbox
UploadImgOnload(k, keepExisting) ==
    /\ k \in DOMAIN uploads
    /\ uploads[k].pc = "decoding"
    /\ Decodable(uploads[k].file)
    /\ UploadAfterDecode(k, imgOnload(uploads[k]), keepExisting)
    /\ UNCHANGED <<convs, rbxMap, polyMap, gltfLoads, equippedUgc, ugcLoads,
                   currentSkinTone, faceDecal, clothingType>>

\* img.onerror while the handler waits, and the catch
UploadImgOnerror(k) ==
    /\ k \in DOMAIN uploads
    /\ uploads[k].pc = "decoding"
    /\ ~Decodable(uploads[k].file)
    /\ UploadAfterDecode(k, imgOnerror(uploads[k]), TRUE)
    /\ UNCHANGED <<convs, rbxMap, polyMap, gltfLoads, equippedUgc, ugcLoads,
                   currentSkinTone, faceDecal, clothingType>>

\* the timer of loadImageSafely fires while the handler waits
UploadTimeout(k) ==
    /\ k \in DOMAIN uploads
    /\ uploads[k].pc = "decoding"
    /\ uploads[k].timer
    /\ UploadAfterDecode(k, onTimeout(uploads[k]), TRUE)
    /\ UNCHANGED <<convs, rbxMap, polyMap, gltfLoads, equippedUgc, ugcLoads,
                   currentSkinTone, faceDecal, clothingType>>

-----------------------------------------------------------------------------
(* Accessories *)

\* the locals of one run of loadUgc
NewUgcLoad(f) ==
    [file |-> f, pc |-> "validating", timer |-> FALSE, promise |-> "none"]

\* an equipped accessory: gltf.scene of the file, added to a node
Accessory(f, model) ==
    [fileName |-> f, parentName |-> model.root, material |-> UgcMaterial(f)]

\* Array.prototype.splice(index, 1), 1-based
RemoveAt(s, k) == SubSeq(s, 1, k - 1) \o SubSeq(s, k + 1, Len(s))

\* equippedUgc.length >= 9
LimitReached(equipped) == Len(equipped) >= MAX_UGC

GltfErrorMessage == "(message of the GLTFLoader error)"

\* change of #ugcUpload with a file, and loadUgc up to its first suspension
UgcChange(f) ==
    /\ Len(ugcLoads) < MaxUgcPending
    /\ IF polyModel = NoModel
       THEN /\ status' = Status("Please load a character model first!", "error")
            /\ UNCHANGED ugcLoads
       ELSE IF LimitReached(equippedUgc)
       THEN /\ status' = Status("Maximum 9 accessories reached!", "error")
            /\ UNCHANGED ugcLoads
       ELSE IF validateGLBFileSync(f) # NoError
       THEN /\ status' = Status(validateGLBFileSync(f), "error")
            /\ UNCHANGED ugcLoads
       ELSE /\ ugcLoads' = Append(ugcLoads, NewUgcLoad(f))
            /\ UNCHANGED status
    /\ UNCHANGED <<convs, rbxMap, polyMap, polyModel, gltfLoads, equippedUgc,
                   currentSkinTone, activeTextures, faceTexture, faceDecal,
                   uploads, clothingType>>

\* the same, chosen only while fewer than n accessories are equipped or
\* being loaded
UgcChangeUpTo(f, n) ==
    /\ Len(equippedUgc) + Len(ugcLoads) < n
    /\ UgcChange(f)

\* reader.onload of validateFileSignature, and loadUgc up to its suspension
\* at "await new Promise"
UgcSignatureRead(k) ==
    /\ k \in DOMAIN ugcLoads
    /\ ugcLoads[k].pc = "validating"
    /\ LET err == validateGLBFileAsync(ugcLoads[k].file)
       IN  IF err # NoError
           THEN /\ ugcLoads' = RemoveAt(ugcLoads, k)
                /\ status' = Status(err, "error")
           ELSE /\ ugcLoads' = [ugcLoads EXCEPT ![k].pc = "reading",
                                                ![k].timer = TRUE,
                                                ![k].promise = "pending"]
                /\ status' = Status("Loading accessory...", "loading")
    /\ UNCHANGED <<convs, rbxMap, polyMap, polyModel, gltfLoads, equippedUgc,
                   currentSkinTone, activeTextures, faceTexture, faceDecal,
                   uploads, clothingType>>

\* reader.onerror of validateFileSignature
UgcSignatureReadError(k) ==
    /\ k \in DOMAIN ugcLoads
    /\ ugcLoads[k].pc = "validating"
    /\ ugcLoads' = RemoveAt(ugcLoads, k)
    /\ status' = Status("File read error", "error")
    /\ UNCHANGED <<convs, rbxMap, polyMap, polyModel, gltfLoads, equippedUgc,
                   currentSkinTone, activeTextures, faceTexture, faceDecal,
                   uploads, clothingType>>

\* the timer of loadUgc fires while the file is read: the promise is
\* rejected and loadUgc ends in its catch; the reader goes on
UgcTimeout(k) ==
    /\ k \in DOMAIN ugcLoads
    /\ ugcLoads[k].pc = "reading"
    /\ ugcLoads[k].timer
    /\ ugcLoads' = [ugcLoads EXCEPT ![k].timer = FALSE,
                                    ![k].promise = Settle(@, "rejected")]
    /\ status' = Status("GLB load timeout", "error")
    /\ UNCHANGED <<convs, rbxMap, polyMap, polyModel, gltfLoads, equippedUgc,
                   currentSkinTone, activeTextures, faceTexture, faceDecal,
                   uploads, clothingType>>

\* reader.onload of loadUgc: the timer is cleared and loader.parse called
UgcReaderOnload(k) ==
    /\ k \in DOMAIN ugcLoads
    /\ ugcLoads[k].pc = "reading"
    /\ ugcLoads' = [ugcLoads EXCEPT ![k].pc = "parsing", ![k].timer = FALSE]
    /\ UNCHANGED <<convs, status, rbxMap, polyMap, polyModel, gltfLoads,
                   equippedUgc, currentSkinTone, activeTextures, faceTexture,
                   faceDecal, uploads, clothingType>>

\* reader.onerror of loadUgc, and the catch when the promise was pending
UgcReaderOnerror(k) ==
    /\ k \in DOMAIN ugcLoads
    /\ ugcLoads[k].pc = "reading"
    /\ ugcLoads' = RemoveAt(ugcLoads, k)
    /\ status' = IF ugcLoads[k].promise = "pending"
                 THEN Status("File read error", "error") ELSE status
    /\ UNCHANGED <<convs, rbxMap, polyMap, polyModel, gltfLoads, equippedUgc,
                   currentSkinTone, activeTextures, faceTexture, faceDecal,
                   uploads, clothingType>>

\* the load callback of loader.parse, and the catch of loadUgc when
\* validateGLTFModel throws while the promise was pending
UgcParsed(k) ==
    /\ k \in DOMAIN ugcLoads
    /\ ugcLoads[k].pc = "parsing"
    /\ Parses(ugcLoads[k].file)
    /\ ugcLoads' = RemoveAt(ugcLoads, k)
    /\ IF Triangles(ugcLoads[k].file) > MAX_TRIANGLES
       THEN /\ status' = Status("Model has too many triangles", "error")
            /\ UNCHANGED equippedUgc
       ELSE /\ equippedUgc' = Append(equippedUgc, Accessory(ugcLoads[k].file, polyModel))
            /\ status' = Status("Accessory added!", "success")
    /\ UNCHANGED <<convs, rbxMap, polyMap, polyModel, gltfLoads,
                   currentSkinTone, activeTextures, faceTexture, faceDecal,
                   uploads, clothingType>>

\* the error callback of loader.parse, and the catch of loadUgc when the
\* promise was pending
UgcParseError(k) ==
    /\ k \in DOMAIN ugcLoads
    /\ ugcLoads[k].pc = "parsing"
    /\ ~Parses(ugcLoads[k].file)
    /\ ugcLoads' = RemoveAt(ugcLoads, k)
    /\ status' = IF ugcLoads[k].promise = "pending"
                 THEN Status(GltfErrorMessage, "error")
                 ELSE Status("Failed to parse GLB file", "error")
    /\ UNCHANGED <<convs, rbxMap, polyMap, polyModel, gltfLoads, equippedUgc,
                   currentSkinTone, activeTextures, faceTexture, faceDecal,
                   uploads, clothingType>>

\* removeUgc(index), index 1-based
RemoveUgc(index) ==
    /\ index \in DOMAIN equippedUgc
    /\ equippedUgc' = IF polyModel # NoModel THEN RemoveAt(equippedUgc, index)
                      ELSE equippedUgc
    /\ UNCHANGED <<convs, status, rbxMap, polyMap, polyModel, gltfLoads,
                   ugcLoads, currentSkinTone, activeTextures, faceTexture,
                   faceDecal, uploads, clothingType>>

\* the click handler of clearUgcBtn
ClearUgc ==
    /\ IF polyModel = NoModel
       THEN UNCHANGED <<equippedUgc, status>>
       ELSE /\ equippedUgc' = <<>>
            /\ status' = Status("All accessories cleared", "info")
    /\ UNCHANGED <<convs, rbxMap, polyMap, polyModel, gltfLoads, ugcLoads,
                   currentSkinTone, activeTextures, faceTexture, faceDecal,
                   uploads, clothingType>>

-----------------------------------------------------------------------------
(* The state machine *)

\* the preview before the load event of window
InitAvatar ==
    /\ polyModel = NoModel
    /\ gltfLoads = <<>>
    /\ equippedUgc = <<>>
    /\ ugcLoads = <<>>
    /\ currentSkinTone = DefaultSkinTone
    /\ activeTextures = NoTextures
    /\ faceTexture = NoTexture
    /\ faceDecal = "unset"
    /\ uploads = <<>>
    /\ clothingType = "shirt"

\* variant: the Roblox table lacks the last region of each category
InitMissingRegion ==
    /\ convs = <<>>
    /\ status = Status("", "info")
    /\ rbxMap = Shortened(rbxMapData, 1)
    /\ polyMap = polyMapData
    /\ InitAvatar

\* variant: a lower-body region of the Roblox table reaches 5 pixels past
\* the right edge of the 585-pixel canvas
InitWideRegion ==
    /\ convs = <<>>
    /\ status = Status("", "info")
    /\ rbxMap = [rbxMapData EXCEPT !.bottom_parts[10].rect = <<526, 355, 64, 128>>]
    /\ polyMap = polyMapData
    /\ InitAvatar

Init ==
    /\ convs = <<>>
    /\ status = Status("", "info")
    /\ rbxMap = rbxMapData
    /\ polyMap = polyMapData
    /\ InitAvatar

Next ==
    \/ ClickNoFile
    \/ \E f \in Files : Click(f)
    \/ \E i \in 1..MaxConv, checked \in ModeInputs, urlOk \in BOOLEAN :
          SignatureRead(i, checked, urlOk)
    \/ \E i \in 1..MaxConv : SignatureReadError(i)
    \/ \E i \in 1..MaxConv : ImgOnload(i)
    \/ \E i \in 1..MaxConv : ImgOnerror(i)
    \/ \E i \in 1..MaxConv : Timeout(i)
    \/ \E i \in 1..MaxConv : LateOnload(i)
    \/ \E i \in 1..MaxConv : LateOnerror(i)
    \/ \E i \in 1..MaxConv, blob \in BOOLEAN, urlOk \in BOOLEAN :
          ToBlobCallback(i, blob, urlOk)

Spec == Init /\ [][Next]_vars

\* the timer of loadImageSafely is a setTimeout of the event loop: once
\* armed and not cleared, its callback runs
FairSpec == Spec /\ \A i \in 1..MaxConv : WF_vars(Timeout(i))

\* the conversion applied to layouts of unequal length: the handler run with
\* a Roblox layout whose categories have lost trailing regions, which is the
\* shorter destination of one direction and the shorter source of the other
InitLayouts ==
    /\ convs = <<>>
    /\ status = Status("", "info")
    /\ \E k \in 0..MaxDrop : rbxMap = Shortened(rbxMapData, k)
    /\ polyMap = polyMapData
    /\ InitAvatar

SpecLayouts == InitLayouts /\ [][Next]_vars

\* the files put into #ugcUpload in SpecUgc
UgcFiles == {"hat", "broken", "notes"}

\* the preview with its first rig and the accessories
NextUgc ==
    \/ WindowLoad
    \/ \E root \in SceneNames : GltfLoaded(1, root)
    \/ GltfFailed(1)
    \/ \E f \in UgcFiles : UgcChange(f)
    \/ \E k \in 1..MaxUgcPending : UgcSignatureRead(k)
    \/ \E k \in 1..MaxUgcPending : UgcSignatureReadError(k)
    \/ \E k \in 1..MaxUgcPending : UgcTimeout(k)
    \/ \E k \in 1..MaxUgcPending : UgcReaderOnload(k)
    \/ \E k \in 1..MaxUgcPending : UgcReaderOnerror(k)
    \/ \E k \in 1..MaxUgcPending : UgcParsed(k)
    \/ \E k \in 1..MaxUgcPending : UgcParseError(k)
    \/ \E index \in 1..(MAX_UGC + MaxUgcPending) : RemoveUgc(index)
    \/ ClearUgc

SpecUgc == Init /\ [][NextUgc]_vars

\* the files put into #upload in SpecTextures
UploadFiles == {"marker585", "white585"}

\* the preview with its rig loads, skin tone, textures and face decal
NextTextures ==
    \/ WindowLoad
    \/ RigChange("male", "legacy")
    \/ \E k \in 1..MaxModelLoads : GltfLoaded(k, "Scene")
    \/ FaceDecalTimer
    \/ FaceDecalLoaded
    \/ \E type \in ClothingTypes : SelectClothing(type)
    \/ \E tone \in SkinTones : SkinInput(tone)
    \/ ClearTextures
    \/ \E f \in UploadFiles : UploadChange(f)
    \/ \E k \in 1..MaxUploads : UploadSignatureRead(k, TRUE)
    \/ \E k \in 1..MaxUploads, keepExisting \in BOOLEAN : UploadImgOnload(k, keepExisting)

SpecTextures == Init /\ [][NextTextures]_vars

\* the values of the characterGender and rigType radio buttons
Genders == {"male", "female"}
RigTypes == {"new", "legacy"}

\* the rig loads and the face decal: the start-up, the changes of gender and
\* rig type, and the completions and failures of the loads in any order
NextRig ==
    \/ WindowLoad
    \/ \E gender \in Genders, rig \in RigTypes : RigChange(gender, rig)
    \/ \E k \in 1..MaxModelLoads, root \in SceneNames : GltfLoaded(k, root)
    \/ \E k \in 1..MaxModelLoads : GltfFailed(k)
    \/ FaceDecalTimer
    \/ FaceDecalLoaded
    \/ FaceDecalFailed

SpecRig == Init /\ [][NextRig]_vars

\* the files put into #ugcUpload in SpecAccessories
AccessoryFiles == {"hat", "mask"}

\* the accessories next to the rig loads and the texture operations
NextAccessories ==
    \/ WindowLoad
    \/ RigChange("male", "legacy")
    \/ \E k \in 1..MaxModelLoads, root \in SceneNames : GltfLoaded(k, root)
    \/ \E f \in AccessoryFiles : UgcChangeUpTo(f, MaxAccessories)
    \/ \E k \in 1..MaxUgcPending : UgcSignatureRead(k)
    \/ \E k \in 1..MaxUgcPending : UgcReaderOnload(k)
    \/ \E k \in 1..MaxUgcPending : UgcParsed(k)
    \/ \E index \in 1..MaxAccessories : RemoveUgc(index)
    \/ ClearUgc
    \/ FaceDecalTimer
    \/ FaceDecalLoaded
    \/ SkinInput("8d5524")
    \/ ClearTextures
    \/ UploadChange("marker585")
    \/ \E k \in 1..MaxUploads : UploadSignatureRead(k, TRUE)
    \/ \E k \in 1..MaxUploads : UploadImgOnload(k, TRUE)

SpecAccessories == Init /\ [][NextAccessories]_vars

\* the timer of the window load handler is a setTimeout of the event loop,
\* and every request of a loader ends with its load or its error callback
FairSpecRig ==
    /\ SpecRig
    /\ WF_vars(FaceDecalTimer)
    /\ WF_vars(FaceDecalLoaded \/ FaceDecalFailed)
    /\ \A k \in 1..MaxModelLoads :
          WF_vars((\E root \in SceneNames : GltfLoaded(k, root)) \/ GltfFailed(k))

\* the files and directions of the conversions of SpecApp
AppFiles == {"gradient1024"}
AppModes == {"rbx2poly", "poly2rbx"}

\* the converter next to the preview: up to MaxRepeat conversions, the
\* first rig, the clothing selection, the clear button and the texture
\* uploads
NextApp ==
    \/ \E f \in AppFiles : ClickUpTo(f, MaxRepeat)
    \/ \E i \in 1..MaxRepeat, checked \in AppModes : SignatureRead(i, checked, TRUE)
    \/ \E i \in 1..MaxRepeat : ImgOnload(i)
    \/ \E i \in 1..MaxRepeat : ToBlobCallback(i, TRUE, TRUE)
    \/ WindowLoad
    \/ GltfLoaded(1, "Scene")
    \/ \E type \in ClothingTypes : SelectClothing(type)
    \/ ClearTextures
    \/ UploadChange("marker585")
    \/ \E k \in 1..MaxUploads : UploadSignatureRead(k, TRUE)
    \/ \E k \in 1..MaxUploads : UploadImgOnload(k, TRUE)

SpecApp == Init /\ [][NextApp]_vars

\* a conversion and the conversion of its result back: up to MaxRepeat runs
\* of the handler on the shirt templates
NextRoundTrip ==
    \/ \E f \in ShirtFiles : ClickUpTo(f, MaxRepeat)
    \/ \E i \in 1..MaxRepeat, checked \in AppModes : SignatureRead(i, checked, TRUE)
    \/ \E i \in 1..MaxRepeat : ImgOnload(i)
    \/ \E i \in 1..MaxRepeat, blob \in BOOLEAN : ToBlobCallback(i, blob, TRUE)

SpecRoundTrip == Init /\ [][NextRoundTrip]_vars

\* the textures put into #upload in SpecWardrobe
WardrobeFiles == {"marker585", "white585"}

\* the preview with its first rig, the face decal and up to MaxWardrobe
\* texture uploads, with the #keepTextures checkbox on or off
NextWardrobe ==
    \/ WindowLoad
    \/ GltfLoaded(1, "Scene")
    \/ FaceDecalTimer
    \/ FaceDecalLoaded
    \/ \E type \in ClothingTypes : SelectClothing(type)
    \/ \E f \in WardrobeFiles : UploadChangeUpTo(f, MaxWardrobe)
    \/ \E k \in 1..MaxWardrobe : UploadSignatureRead(k, TRUE)
    \/ \E k \in 1..MaxWardrobe, keepExisting \in BOOLEAN : UploadImgOnload(k, keepExisting)

SpecWardrobe == Init /\ [][NextWardrobe]_vars

\* the files put into #converterInput and #upload in SpecValidation: a PNG,
\* a file over the size cap, a GIF, a GIF named .png and a JPEG named .png
ValidationFiles == {"white585", "oversize", "gif", "spoof", "mislabeled"}

\* the validation of the files of the converter and of the texture upload,
\* next to the first rig
NextValidation ==
    \/ \E f \in ValidationFiles : Click(f)
    \/ \E i \in 1..MaxConv, checked \in AppModes : SignatureRead(i, checked, TRUE)
    \/ \E i \in 1..MaxConv : SignatureReadError(i)
    \/ \E i \in 1..MaxConv : ImgOnload(i)
    \/ \E i \in 1..MaxConv : ToBlobCallback(i, TRUE, TRUE)
    \/ WindowLoad
    \/ GltfLoaded(1, "Scene")
    \/ \E f \in ValidationFiles : UploadChange(f)
    \/ \E k \in 1..MaxUploads : UploadSignatureRead(k, TRUE)
    \/ \E k \in 1..MaxUploads : UploadSignatureReadError(k)
    \/ \E k \in 1..MaxUploads : UploadImgOnload(k, TRUE)

SpecValidation == Init /\ [][NextValidation]_vars

-----------------------------------------------------------------------------
(* Properties *)

\* the handlers that have produced their canvas
Converted == {i \in DOMAIN convs : convs[i].pc \in {"encoding", "done", "failed"}}

\* the handlers that have just handed their canvas to canvas.toBlob; the
\* canvas is not written afterwards
Drawn == {i \in DOMAIN convs : convs[i].pc = "encoding"}

\* the layouts the run i of the handler reads and writes
SrcOf(i) == SrcMap(convs[i].mode, rbxMap, polyMap)
DestOf(i) == DestMap(convs[i].mode, rbxMap, polyMap)

\* the pairs (category, index) defined in both layouts
Matched(i) ==
    {p \in {"top_parts", "bottom_parts"} \X (1..12) :
        p[2] \in DOMAIN SrcOf(i)[p[1]] /\ p[2] \in DOMAIN DestOf(i)[p[1]]}

\* all destination rectangles of run i
DestRects(i) ==
    {DestOf(i)[cat][k].rect : cat \in {"top_parts"}, k \in DOMAIN DestOf(i).top_parts}
    \cup {DestOf(i)[cat][k].rect : cat \in {"bottom_parts"}, k \in DOMAIN DestOf(i).bottom_parts}

\* C1: for both directions and every source image the canvas has the fixed
\* size of its direction, 1024x1024 or 585x559, whatever the dimensions of
\* the source image are.
C1_CanvasSizeFixedByDirection ==
    \A i \in Converted :
        LET c == convs[i]
        IN  <<c.canvas.width, c.canvas.height>> =
                IF c.mode = "rbx2poly" THEN <<1024, 1024>> ELSE <<585, 559>>

\* a conversion of the 1x1 image has produced its canvas
C1_Witness ==
    \E i \in Converted : convs[i].file = "tiny" /\ convs[i].canvas.width > 1

\* C2 as stated: the canvas is 1024x1024 when the destination layout is the
\* one whose first top_parts rectangle is [231,8,128,64], and 585x559 when
\* it is the one whose first top_parts rectangle is [199,74,200,100].
C2_Original ==
    \A i \in Converted :
        LET c == convs[i]
            first == DestOf(i).top_parts[1].rect
        IN  /\ first = <<231, 8, 128, 64>>
                 => c.canvas.width = 1024 /\ c.canvas.height = 1024
            /\ first = <<199, 74, 200, 100>>
                 => c.canvas.width = 585 /\ c.canvas.height = 559

\* C2 amended: the canvas is 1024x1024 when the destination layout is the
\* one whose first top_parts rectangle is [199,74,200,100], and 585x559
\* when it is the one whose first top_parts rectangle is [231,8,128,64].
C2_CanvasSizeOfLayout ==
    \A i \in Converted :
        LET c == convs[i]
            first == DestOf(i).top_parts[1].rect
        IN  /\ first \in {<<231, 8, 128, 64>>, <<199, 74, 200, 100>>}
            /\ first = <<199, 74, 200, 100>>
                 => c.canvas.width = 1024 /\ c.canvas.height = 1024
            /\ first = <<231, 8, 128, 64>>
                 => c.canvas.width = 585 /\ c.canvas.height = 559

\* a finished conversion into each of the two layouts
C2_Witness ==
    \E i \in Converted :
        /\ convs[i].pc = "done"
        /\ DestOf(i).top_parts[1].rect = <<199, 74, 200, 100>>
        /\ convs[i].canvas.width = 1024

\* the canvas the handler draws for file f and direction m with the
\* compiled-in layouts
ConversionOf(f, m) ==
    AfterDecode([NewConv(f) EXCEPT !.pc = "decoding", !.mode = m, !.promise = "resolved"],
                rbxMapData, polyMapData).canvas

\* the files and directions whose conversion reaches the region copies
Convertible ==
    {f \in Files : /\ validateImageFileSync(f) = NoError
                   /\ validateImageFileAsync(f) = NoError
                   /\ Decodable(f)
                   /\ ~TooLarge(Raster(f))}
    \X {ReadMode(checked) : checked \in ModeInputs}

\* the offsets inside a rectangle of size w x h at which pixels are
\* compared: the corners, their neighbours, the middles of the edges and
\* the centre
ProbeOffsets(w, h) ==
    {0, 1, w \div 2, w - 2, w - 1} \X {0, 1, h \div 2, h - 2, h - 1}

\* every rectangle of the destination layout that has a source rectangle of
\* the same category and index shows on canvas cv, pixel by pixel, that
\* source rectangle of the image of f, rescaled
RegionsCopied(f, m, cv) ==
    LET srcMap == SrcMap(m, rbxMapData, polyMapData)
        destMap == DestMap(m, rbxMapData, polyMapData)
        img == Raster(f)
    IN  \A cat \in {"top_parts", "bottom_parts"} :
            \A k \in DOMAIN srcMap[cat] \cap DOMAIN destMap[cat] :
                LET src == srcMap[cat][k].rect
                    dst == destMap[cat][k].rect
                IN  \A o \in ProbeOffsets(dst[3], dst[4]) :
                        LET sx == src[1] + ((o[1] * src[3]) \div dst[3])
                            sy == src[2] + ((o[2] * src[4]) \div dst[4])
                        IN  /\ InRect(sx, sy, src)
                            /\ CanvasPixel(img, cv, dst[1] + o[1], dst[2] + o[2])
                                 = ImagePixel(img, sx, sy)

\* the conversions whose canvas passes the comparison (the comparison is
\* made once for each file, direction and canvas, not once for each state)
C3_Compared ==
    {t \in {<<q[1], q[2], ConversionOf(q[1], q[2])>> : q \in Convertible} :
        RegionsCopied(t[1], t[2], t[3])}

\* C3: after a conversion, every destination rectangle of a pair defined in
\* both layouts shows, pixel by pixel, the rescaled source rectangle of the
\* same category and index of the source image, and nothing of another
\* source rectangle: the canvas of every run that has drawn is one that
\* passes the comparison.
C3_RegionToSameRegion ==
    \A i \in Drawn :
        /\ rbxMap = rbxMapData /\ polyMap = polyMapData
        /\ <<convs[i].file, convs[i].mode, convs[i].canvas>> \in C3_Compared

\* a conversion of the image whose pixels all differ, in the direction that
\* shrinks the regions
C3_Witness ==
    \E i \in Drawn :
        /\ convs[i].file = "gradient1024"
        /\ convs[i].mode = "poly2rbx"
        /\ CanvasPixel(Raster("gradient1024"), convs[i].canvas, 231 + 127, 8 + 63)
             = <<"px", 199 + 198, 74 + 98>>

\* C4: converting the 585x559 image with the red marker at (199,74), from
\* the layout of [199,74,200,100] to the layout of [231,8,128,64], puts the
\* marker at the top-left corner (231,8) of the destination rectangle and
\* at none of its other corners, and the marked source rectangle lies
\* inside the source image.
C4_MarkerKeepsCorner ==
    \A i \in Converted :
        (convs[i].file = "marker585" /\ ~IsRbx2Poly(convs[i].mode))
        => LET img == Raster(convs[i].file)
               src == SrcOf(i).top_parts[1].rect
               dst == DestOf(i).top_parts[1].rect
               cv == convs[i].canvas
           IN  /\ src = <<199, 74, 200, 100>> /\ dst = <<231, 8, 128, 64>>
               /\ img.width = 585 /\ img.height = 559
               /\ src[1] + src[3] <= img.width /\ src[2] + src[4] <= img.height
               /\ ImagePixel(img, src[1], src[2]) = Red
               /\ CanvasPixel(img, cv, dst[1], dst[2]) = Red
               /\ CanvasPixel(img, cv, dst[1] + dst[3] - 1, dst[2]) = White
               /\ CanvasPixel(img, cv, dst[1], dst[2] + dst[4] - 1) = White
               /\ CanvasPixel(img, cv, dst[1] + dst[3] - 1, dst[2] + dst[4] - 1) = White

\* the marker image has been converted in that direction
C4_Witness ==
    \E i \in Converted :
        /\ convs[i].file = "marker585"
        /\ convs[i].mode = "poly2rbx"
        /\ convs[i].pc = "done"

\* the columns (rows) on both sides of every vertical (horizontal) edge of
\* the rectangles and of the canvas
EdgeXs(rects, width) ==
    {0, width - 1} \cup UNION {{r[1] - 1, r[1], r[1] + r[3] - 1, r[1] + r[3]} : r \in rects}
EdgeYs(rects, height) ==
    {0, height - 1} \cup UNION {{r[2] - 1, r[2], r[2] + r[4] - 1, r[2] + r[4]} : r \in rects}

\* the rectangles of a layout
RectsOf(map) ==
    {map.top_parts[k].rect : k \in DOMAIN map.top_parts}
    \cup {map.bottom_parts[k].rect : k \in DOMAIN map.bottom_parts}

\* the all-white files with the direction in which they have the canonical
\* size of the source layout
WhiteCanonical ==
    {<<"white585", "rbx2poly">>, <<"white1024", "poly2rbx">>, <<"white1024", "nonexistent">>}

\* canvas cv is white inside the rectangles of the destination layout and
\* transparent elsewhere.  The image being uniform, the canvas is constant
\* on each cell of the grid drawn by the edges of the rectangles: the pixels
\* on both sides of every edge are compared, in all combinations.
WhiteInsideOnly(f, m, cv) ==
    LET rects == RectsOf(DestMap(m, rbxMapData, polyMapData))
        img == Raster(f)
    IN  \A x \in EdgeXs(rects, cv.width), y \in EdgeYs(rects, cv.height) :
            CanvasPixel(img, cv, x, y) =
                IF \E r \in rects : InRect(x, y, r) THEN White ELSE Transparent

\* the conversions of all-white canonical images whose canvas passes the
\* comparison
C5_Compared ==
    {t \in {<<q[1], q[2], ConversionOf(q[1], q[2])>> : q \in WhiteCanonical} :
        WhiteInsideOnly(t[1], t[2], t[3])}

\* C5: after the conversion of an all-white image of the source layout's
\* canonical size, every pixel inside a destination rectangle is white and
\* every pixel outside all destination rectangles is transparent.
C5_WritesOnlyInsideRegions ==
    \A i \in Drawn :
        <<convs[i].file, convs[i].mode>> \in WhiteCanonical
        => /\ rbxMap = rbxMapData /\ polyMap = polyMapData
           /\ <<convs[i].file, convs[i].mode, convs[i].canvas>> \in C5_Compared

\* an all-white 585x559 image has been drawn onto the 1024x1024 canvas
C5_Witness ==
    \E i \in Drawn :
        /\ convs[i].file = "white585"
        /\ convs[i].mode = "rbx2poly"
        /\ convs[i].pc = "encoding"
        /\ Len(convs[i].canvas.draws) = 18

Min(a, b) == IF a <= b THEN a ELSE b

\* C6 (SpecLayouts): when a category of the destination layout has fewer
\* regions than the same category of the source layout, the run of the
\* handler whose image was decoded raises no error, makes no drawImage call
\* for the regions past the end of the destination category and makes the
\* call of every pair defined in both layouts.
C6_ShorterDestinationSkipped ==
    \A i \in DOMAIN convs :
        convs[i].promise = "resolved"
        => LET draws == convs[i].canvas.draws
           IN  /\ i \in Converted
               /\ convs[i].error # TypeErrorMessage
               /\ Len(draws) = Min(Len(SrcOf(i).top_parts), Len(DestOf(i).top_parts))
                             + Min(Len(SrcOf(i).bottom_parts), Len(DestOf(i).bottom_parts))
               /\ \A p \in Matched(i) :
                     \E k \in DOMAIN draws :
                         /\ draws[k].s = SrcOf(i)[p[1]][p[2]].rect
                         /\ draws[k].d = DestOf(i)[p[1]][p[2]].rect

\* a finished conversion whose destination categories are shorter than the
\* source categories
C6_Witness ==
    \E i \in Converted :
        /\ convs[i].pc = "done"
        /\ Len(DestOf(i).top_parts) < Len(SrcOf(i).top_parts)
        /\ Len(DestOf(i).bottom_parts) < Len(SrcOf(i).bottom_parts)
        /\ Len(convs[i].canvas.draws) = Len(DestOf(i).top_parts) + Len(DestOf(i).bottom_parts)

\* the image of run i was decoded before the timer fired
DecodedInTime(i) == convs[i].img = "loaded" /\ ~convs[i].late

\* the dimensions of the image of run i are not the canonical size of the
\* source layout
NotCanonical(i) ==
    <<Raster(convs[i].file).width, Raster(convs[i].file).height>> #
        (IF IsRbx2Poly(convs[i].mode) THEN <<585, 559>> ELSE <<1024, 1024>>)

\* the run i went on to the region copies without an error and its canvas
\* has the size of the destination
Proceeded(i) ==
    /\ i \in Converted
    /\ convs[i].pc = "encoding" => convs[i].error = NoError
    /\ convs[i].error \notin {"Image dimensions too large (max 8192x8192)", TypeErrorMessage}
    /\ <<convs[i].canvas.width, convs[i].canvas.height>> =
          (IF IsRbx2Poly(convs[i].mode) THEN <<1024, 1024>> ELSE <<585, 559>>)

\* C7 as stated: a decoded image whose dimensions are not the canonical
\* size of the source layout is never rejected for its dimensions; the
\* conversion goes on in either direction without an error and produces a
\* canvas of the destination size.
C7_Original ==
    \A i \in DOMAIN convs :
        (DecodedInTime(i) /\ NotCanonical(i)) => Proceeded(i)

\* C7 amended: the same for a decoded image whose width and height are at
\* most 8192.
C7_WrongSizeAccepted ==
    \A i \in DOMAIN convs :
        (/\ DecodedInTime(i)
         /\ NotCanonical(i)
         /\ Raster(convs[i].file).width <= 8192
         /\ Raster(convs[i].file).height <= 8192) => Proceeded(i)

\* the 1x1 image has been decoded and converted, and the result downloaded
C7_Witness ==
    \E i \in Converted :
        /\ convs[i].file = "tiny"
        /\ DecodedInTime(i)
        /\ convs[i].pc = "done"
        /\ convs[i].download = "polytoria_template.png"

\* C8: when the decode of the source image fails, the handler ends in its
\* catch: the status shows the error, no canvas has been drawn and no
\* download is offered, then or later.
C8_DecodeFailureAborts ==
    /\ [][\A i \in 1..MaxConv :
            (/\ i \in DOMAIN convs
             /\ convs[i].pc = "decoding"
             /\ convs'[i].img = "error")
            => /\ convs'[i].pc = "aborted"
               /\ status' = [message |-> "Failed to load image", type |-> "error"]]_vars
    /\ [](\A i \in DOMAIN convs :
            (convs[i].img = "error" /\ ~convs[i].late)
            => /\ convs[i].pc = "aborted"
               /\ convs[i].error = "Failed to load image"
               /\ convs[i].canvas = NoCanvas
               /\ convs[i].download = "")

\* the decode of the corrupt file has failed
C8_Witness ==
    \E i \in DOMAIN convs :
        /\ convs[i].file = "corrupt"
        /\ convs[i].img = "error"
        /\ convs[i].pc = "aborted"
        /\ status.type = "error"

\* C9 (FairSpec): the wait for the decode always ends; a run whose timer
\* fired ends in the catch with the timeout error as status, without canvas
\* and without download, and stays so when the decode completes afterwards.
C9_TimeoutEndsWait ==
    /\ \A i \in 1..MaxConv :
          (i \in DOMAIN convs /\ convs[i].pc = "decoding")
             ~> (i \in DOMAIN convs /\ convs[i].pc # "decoding")
    /\ [][\A i \in 1..MaxConv :
            (/\ i \in DOMAIN convs
             /\ convs[i].pc = "decoding"
             /\ convs'[i].error = "Image load timeout")
            => /\ convs'[i].pc = "aborted"
               /\ status' = [message |-> "Image load timeout", type |-> "error"]]_vars
    /\ [](\A i \in DOMAIN convs :
            convs[i].error = "Image load timeout"
            => /\ convs[i].pc = "aborted"
               /\ convs[i].promise = "rejected"
               /\ convs[i].canvas = NoCanvas
               /\ convs[i].download = "")

\* the decode of a decodable image completed after the timer had fired
C9_Witness ==
    \E i \in DOMAIN convs :
        /\ TimedOut(convs[i])
        /\ convs[i].late
        /\ convs[i].img = "loaded"

\* C10: a run of the handler that reads a direction other than the two
\* registered ones fails before it uses a layout: it is in the catch and has
\* neither canvas nor download.
C10_UnknownDirectionFails ==
    \A i \in DOMAIN convs :
        (convs[i].mode \notin {"", "rbx2poly", "poly2rbx"})
        => /\ convs[i].pc = "aborted"
           /\ convs[i].canvas = NoCanvas
           /\ convs[i].download = ""

\* the layouts of the program
Layouts == {rbxMap, polyMap}

\* C13: both layouts define exactly the two categories, with 6 upper-body
\* and 12 lower-body regions, the same indices in both layouts, and every
\* region is a rectangle of four integers with a strictly positive width
\* and height; a conversion therefore makes one copy for each of the 18
\* index-aligned pairs.
C13_LayoutShape ==
    /\ \A map \in Layouts :
          /\ DOMAIN map = {"top_parts", "bottom_parts"}
          /\ Len(map.top_parts) = 6
          /\ Len(map.bottom_parts) = 12
          /\ \A cat \in DOMAIN map : \A k \in DOMAIN map[cat] :
                LET rect == map[cat][k].rect
                IN  /\ Len(rect) = 4
                    /\ \A n \in 1..4 : rect[n] \in Int
                    /\ rect[3] > 0
                    /\ rect[4] > 0
    /\ \A cat \in {"top_parts", "bottom_parts"} :
          DOMAIN rbxMap[cat] = DOMAIN polyMap[cat]
    /\ \A i \in Converted : Len(convs[i].canvas.draws) = 6 + 12

\* a conversion into the Roblox layout has copied the 18 pairs, the last of
\* them the twelfth lower-body pair
C13_Witness ==
    \E i \in Converted :
        /\ ~IsRbx2Poly(convs[i].mode)
        /\ Len(convs[i].canvas.draws) = 18
        /\ convs[i].canvas.draws[18] =
              [s |-> polyMap.bottom_parts[12].rect, d |-> rbxMap.bottom_parts[12].rect]

\* C14: after any sequence of conversions, successful or failed, in either
\* direction, both layouts equal their compiled-in values.
C14_LayoutsNeverModified ==
    /\ rbxMap = rbxMapData
    /\ polyMap = polyMapData

\* a conversion has drawn from and into the layouts and its encoding failed
C14_Witness ==
    \E i \in Converted :
        /\ convs[i].pc = "failed"
        /\ Len(convs[i].canvas.draws) > 0
        /\ rbxMap = rbxMapData

\* C15: a download is offered only by a run whose encoding succeeded, every
\* such run offers one, and its name is polytoria_template.png when the run
\* drew into the Polytoria layout and roblox_template.png when it drew into
\* the Roblox layout.
C15_DownloadNameByDirection ==
    \A i \in DOMAIN convs :
        LET c == convs[i]
        IN  /\ c.download # "" => c.pc = "done"
            /\ c.pc = "done" =>
                  /\ c.error = NoError
                  /\ DestOf(i) = polyMapData => c.download = "polytoria_template.png"
                  /\ DestOf(i) = rbxMapData => c.download = "roblox_template.png"
                  /\ DestOf(i) \in {polyMapData, rbxMapData}
            /\ c.pc = "failed" => c.download = ""

\* a conversion into the Roblox layout is offered as roblox_template.png
C15_Witness ==
    \E i \in DOMAIN convs :
        /\ convs[i].pc = "done"
        /\ convs[i].mode = "poly2rbx"
        /\ DestOf(i) = rbxMapData
        /\ convs[i].download = "roblox_template.png"

\* two rectangles share a pixel
Overlap(r, q) ==
    /\ r[1] < q[1] + q[3] /\ q[1] < r[1] + r[3]
    /\ r[2] < q[2] + q[4] /\ q[2] < r[2] + r[4]

\* the regions (category, index) of a layout
RegionsOf(map) ==
    {<<cat, k>> : cat \in {"top_parts"}, k \in DOMAIN map.top_parts}
    \cup {<<cat, k>> : cat \in {"bottom_parts"}, k \in DOMAIN map.bottom_parts}

\* no two regions of a layout, of the same or of different categories,
\* share a pixel
DisjointRegions(map) ==
    \A p, q \in RegionsOf(map) :
        p # q => ~Overlap(map[p[1]][p[2]].rect, map[q[1]][q[2]].rect)

\* no two drawImage calls write the same destination pixel
DisjointDraws(draws) ==
    \A j, k \in DOMAIN draws : j < k => ~Overlap(draws[j].d, draws[k].d)

\* the compiled-in layouts and the canvases of the conversions that pass the
\* comparison of their rectangles (made once, not once for each state)
C18_Layouts == {map \in {rbxMapData, polyMapData} : DisjointRegions(map)}
C18_Canvases ==
    {cv \in {ConversionOf(q[1], q[2]) : q \in Convertible} : DisjointDraws(cv.draws)}

\* C18: within each layout no two regions, of the same or of different
\* categories, share a pixel, and no two drawImage calls of a conversion
\* write the same destination pixel.
C18_RegionsDisjoint ==
    /\ rbxMap \in C18_Layouts
    /\ polyMap \in C18_Layouts
    /\ \A i \in Converted : convs[i].canvas \in C18_Canvases

\* a conversion into the Polytoria layout has made its 18 copies, of which
\* the third and the fourth write rectangles ten pixels apart
C18_Witness ==
    \E i \in Converted :
        /\ IsRbx2Poly(convs[i].mode)
        /\ Len(convs[i].canvas.draws) = 18
        /\ convs[i].canvas.draws[3].d = <<199, 184, 200, 200>>
        /\ convs[i].canvas.draws[4].d = <<409, 184, 100, 200>>

\* the direction back
Opposite(mode) == IF IsRbx2Poly(mode) THEN "poly2rbx" ELSE "rbx2poly"

\* the compiled-in layout and the canonical size of the platform a
\* conversion in direction mode starts from
SourceLayout(mode) == IF IsRbx2Poly(mode) THEN rbxMapData ELSE polyMapData
SourceSize(mode) ==
    IF IsRbx2Poly(mode) THEN <<RbxCanvasWidth, RbxCanvasHeight>>
    ELSE <<PolyCanvasWidth, PolyCanvasHeight>>

\* file g holds the image on canvas cv, drawn from the image of f (PNG keeps
\* every pixel).  Both are constant on the cells of the grid drawn by the
\* edges of the rectangles of the layout: the pixels on both sides of every
\* edge are compared.
IsDownload(g, f, map, cv) ==
    /\ Raster(g).width = cv.width
    /\ Raster(g).height = cv.height
    /\ \A x \in EdgeXs(RectsOf(map), cv.width), y \in EdgeYs(RectsOf(map), cv.height) :
          ImagePixel(Raster(g), x, y) = CanvasPixel(Raster(f), cv, x, y)

\* the triples <<g, f, mode>>: g is the download of the conversion of f in
\* direction mode (the comparison is made once for each triple)
Downloads ==
    UNION {IF IsDownload(t[1], t[2], DestMap(t[3], rbxMapData, polyMapData),
                         ConversionOf(t[2], t[3]))
           THEN {t} ELSE {} : t \in ShirtFiles \X ShirtFiles \X AppModes}

\* the pixels of a rectangle that are looked at
Probes(rect) ==
    {<<rect[1] + o[1], rect[2] + o[2]>> : o \in ProbeOffsets(rect[3], rect[4])}

\* every region of the layout that shows a pixel of image f shows pixels
\* only on canvas back, which was drawn from the image of g
RegionsKept(f, map, g, back) ==
    \A p \in RegionsOf(map) :
        LET rect == map[p[1]][p[2]].rect
        IN  (\E q \in Probes(rect) : ImagePixel(Raster(f), q[1], q[2]) # Transparent)
            => \A q \in Probes(rect) :
                  CanvasPixel(Raster(g), back, q[1], q[2]) # Transparent

\* the round trips that keep the regions and the size: <<f, mode, g, back>>
\* where g is the download of the conversion of f in direction mode, f has
\* the canonical size of the platform it comes from and back is the canvas
\* of the conversion of g in the opposite direction
C12_Compared ==
    {<<t[2], t[3], t[1], ConversionOf(t[1], Opposite(t[3]))>> : t \in
        {t \in Downloads :
            LET back == ConversionOf(t[1], Opposite(t[3]))
            IN  /\ <<back.width, back.height>> = SourceSize(t[3])
                /\ RegionsKept(t[2], SourceLayout(t[3]), t[1], back)}}

C16_AtMostNineAccessories == Len(equippedUgc) <= 9

\* the textures the texture state holds for mesh m: those of the categories
\* whose body parts name the mesh and, for a head or face mesh, the face
\* texture
CurrentTextures(m) ==
    {activeTextures[c] : c \in {c \in ClothingTypes : IsBodyPart(c, m)}}
    \cup (IF IsFaceMesh(m) THEN {faceTexture} ELSE {})

\* C20 (SpecTextures): between any two handlers every mesh of the model has
\* a material of the current skin tone whose map is null or a texture the
\* current texture state holds for that mesh: no material was built from a
\* skin tone or a texture that has been replaced since.
C20_MaterialsOfCurrentState ==
    polyModel # NoModel =>
        \A m \in MeshIds :
            /\ polyModel.meshes[m].skin = currentSkinTone
            /\ polyModel.meshes[m].map \in {NoTexture} \cup CurrentTextures(m)

\* a shirt texture was uploaded, the skin tone changed while a rig was
\* loading, and the new rig shows the texture on the new skin tone
C20_Witness ==
    /\ Len(gltfLoads) = 2
    /\ gltfLoads[2].state = "loaded"
    /\ polyModel.path = gltfLoads[2].path
    /\ currentSkinTone # DefaultSkinTone
    /\ activeTextures.shirt # NoTexture
    /\ polyModel.meshes["Torso"] = createMaterial(currentSkinTone, activeTextures.shirt)
    /\ faceTexture = DecalTexture
    /\ polyModel.meshes["Head"].map = DecalTexture

CanvasTexture(i) ==
    [source |-> "canvas", run |-> i, flipY |-> FALSE, encoding |-> "sRGB"]

\* C17 (SpecApp): the step that completes a conversion while the selected
\* clothing type is shirt and a model is loaded leaves every upper-body mesh
\* of the model with a texture made of the converted canvas, with flipY
\* false and sRGB encoding.
C17_ConvertedRasterApplied ==
    [][\A i \in 1..MaxRepeat :
          (/\ i \in DOMAIN convs
           /\ convs[i].pc = "encoding"
           /\ convs'[i].pc = "done"
           /\ clothingType = "shirt"
           /\ polyModel # NoModel)
          => \A m \in MeshIds :
                IsBodyPart("shirt", m) =>
                    polyModel'.meshes[m].map = CanvasTexture(i)]_vars

\* the region copied by the k-th drawImage call
RegionOrder(k) == IF k <= 6 THEN <<"top_parts", k>> ELSE <<"bottom_parts", k - 6>>

\* C19: in both directions and in every run the drawImage calls are made
\* for the upper-body regions 1 to 6 in ascending order, then for the
\* lower-body regions 1 to 12 in ascending order.
C19_FixedCopyOrder ==
    \A i \in Converted :
        LET draws == convs[i].canvas.draws
        IN  /\ Len(draws) = 18
            /\ \A k \in 1..18 :
                  LET p == RegionOrder(k)
                  IN  /\ draws[k].s = SrcOf(i)[p[1]][p[2]].rect
                      /\ draws[k].d = DestOf(i)[p[1]][p[2]].rect

\* a conversion into the Roblox layout whose sixth copy is the last
\* upper-body region and whose seventh is the first lower-body region
C19_Witness ==
    \E i \in Converted :
        /\ convs[i].mode = "poly2rbx"
        /\ convs[i].canvas.draws[6].d = <<231, 204, 128, 64>>
        /\ convs[i].canvas.draws[7].d = <<217, 289, 64, 64>>

\* the texture the texture state holds for mesh m: the active texture of
\* the clothing category of the mesh and, when there is none, the face
\* texture for a head or face mesh
StateTexture(m) ==
    LET own == IF IsBodyPart("shirt", m) THEN activeTextures.shirt
               ELSE IF IsBodyPart("pants", m) THEN activeTextures.pants
               ELSE IF IsBodyPart("face", m) THEN activeTextures.face
               ELSE NoTexture
    IN  IF own = NoTexture /\ IsFaceMesh(m) THEN faceTexture ELSE own

\* the step is the end of a texture upload with the keep-existing option on
KeptUpload ==
    \E k \in 1..MaxWardrobe : UploadImgOnload(k, TRUE) /\ uploads'[k].pc = "applied"

\* C21 as stated (SpecWardrobe): a texture upload with the keep-existing
\* option on leaves the material of every mesh outside the selected clothing
\* category as it was.
C21_Original ==
    [][KeptUpload =>
          \A m \in MeshIds :
              ~IsBodyPart(clothingType, m) =>
                  polyModel'.meshes[m] = polyModel.meshes[m]]_vars

\* C21 (SpecWardrobe): a texture upload with the keep-existing option on
\* gives the meshes of the selected clothing category the uploaded texture
\* and leaves every other mesh with the texture the texture state held for
\* it before the upload; a mesh that showed that texture is left as it was.
C21_KeepExistingShowsActive ==
    [][KeptUpload =>
          \A m \in MeshIds :
              /\ IsBodyPart(clothingType, m) =>
                    /\ polyModel'.meshes[m].map = activeTextures'[clothingType]
                    /\ activeTextures'[clothingType] # NoTexture
              /\ ~IsBodyPart(clothingType, m) =>
                    /\ polyModel'.meshes[m].map = StateTexture(m)
                    /\ polyModel.meshes[m].map = StateTexture(m)
                          => polyModel'.meshes[m] = polyModel.meshes[m]]_vars

\* a pants texture and then a shirt texture were uploaded with the option
\* on: the leg shows the first, the torso the second and the head the
\* default face decal
C21_Witness ==
    /\ Len(uploads) = 2
    /\ uploads[1].pc = "applied" /\ uploads[2].pc = "applied"
    /\ polyModel # NoModel
    /\ polyModel.meshes["LeftLeg"].map = NewTexture(uploads[1].file)
    /\ polyModel.meshes["Torso"].map = NewTexture(uploads[2].file)
    /\ uploads[1].file # uploads[2].file
    /\ polyModel.meshes["Head"].map = DecalTexture

\* the signature of the format an extension names
SignatureOfExt(ext) ==
    IF ext = <<"p","n","g">> THEN FILE_SIGNATURES.png ELSE FILE_SIGNATURES.jpg

\* the file passes the three checks of the claim
ValidImage(f) ==
    /\ FileSize(f) <= MAX_IMAGE_SIZE
    /\ FileExt(f) \in ImageExts
    /\ StartsWith(Header(SubSeq(FileBytes(f), 1, 8)), SignatureOfExt(FileExt(f)))

\* the runs of the two handlers
Runs == {convs[i] : i \in DOMAIN convs} \cup {uploads[k] : k \in DOMAIN uploads}

\* C22 (SpecValidation): a run of the convert or upload handler has called loadImageSafely
\* only for a file of at most 10 MB with the extension png, jpg or jpeg whose
\* leading bytes are the signature of the format its extension names; a run
\* stopped by the validation has left an error status message and no canvas.
C22_OnlyValidFilesDecoded ==
    /\ \A c \in Runs : c.promise # "none" => ValidImage(c.file)
    /\ \A i \in DOMAIN convs :
          (convs[i].pc = "aborted" /\ convs[i].promise = "none")
          => /\ convs[i].canvas = NoCanvas
             /\ convs[i].error # NoError
    /\ \A k \in DOMAIN uploads :
          (uploads[k].pc = "aborted" /\ uploads[k].promise = "none")
          => uploads[k].error # NoError

\* rectangle r = <<x, y, w, h>> lies inside a canvas of the given size
InsideCanvas(r, width, height) ==
    /\ r[1] >= 0 /\ r[2] >= 0
    /\ r[1] + r[3] <= width
    /\ r[2] + r[4] <= height

\* C23: every region rectangle of the Roblox layout lies inside the 585x559
\* canvas and every region rectangle of the Polytoria layout inside the
\* 1024x1024 canvas, and every destination rectangle a conversion has drawn
\* into lies inside the canvas of that conversion.
C23_RegionsInsideCanvas ==
    /\ \A r \in RectsOf(rbxMap) : InsideCanvas(r, RbxCanvasWidth, RbxCanvasHeight)
    /\ \A r \in RectsOf(polyMap) : InsideCanvas(r, PolyCanvasWidth, PolyCanvasHeight)
    /\ \A i \in Converted :
          \A k \in DOMAIN convs[i].canvas.draws :
              InsideCanvas(convs[i].canvas.draws[k].d,
                           convs[i].canvas.width, convs[i].canvas.height)

\* a conversion into the Roblox layout has drawn the region that ends closest
\* to the right edge of its canvas, and leaves 15 pixels to the edge
C23_Witness ==
    \E i \in Converted :
        /\ convs[i].canvas.width = 585
        /\ convs[i].canvas.draws[16].d = <<506, 355, 64, 128>>
        /\ convs[i].canvas.width - (506 + 64) = 15

\* copying rectangle s onto rectangle d scales both axes by the same factor,
\* and the factor is not 1
UniformScaling(s, d) ==
    /\ s[3] * d[4] = s[4] * d[3]
    /\ <<s[3], s[4]>> # <<d[3], d[4]>>

\* C24: the regions of the two layouts with the same category and index have
\* the same aspect ratio and different sizes, and every drawImage call of a
\* conversion copies a source rectangle onto a destination rectangle of the
\* same aspect ratio and a different size.
C24_UniformScaling ==
    /\ \A k \in DOMAIN rbxMap.top_parts \cap DOMAIN polyMap.top_parts :
          UniformScaling(rbxMap.top_parts[k].rect, polyMap.top_parts[k].rect)
    /\ \A k \in DOMAIN rbxMap.bottom_parts \cap DOMAIN polyMap.bottom_parts :
          UniformScaling(rbxMap.bottom_parts[k].rect, polyMap.bottom_parts[k].rect)
    /\ \A i \in Converted :
          \A k \in DOMAIN convs[i].canvas.draws :
              UniformScaling(convs[i].canvas.draws[k].s, convs[i].canvas.draws[k].d)

\* a conversion into the Polytoria layout has enlarged the 128x64 region of
\* the Roblox layout to 200x100 and the 64x128 region to 100x200
C24_Witness ==
    \E i \in Converted :
        /\ convs[i].mode = "rbx2poly"
        /\ convs[i].canvas.draws[1].s = <<231, 8, 128, 64>>
        /\ convs[i].canvas.draws[1].d = <<199, 74, 200, 100>>
        /\ convs[i].canvas.draws[2].s = <<165, 74, 64, 128>>
        /\ convs[i].canvas.draws[2].d = <<89, 184, 100, 200>>

\* the character models that are children of scene
InScene == {k \in DOMAIN gltfLoads : gltfLoads[k].inScene}

\* C25 (SpecRig): at most one character model is a child of scene.
C25_AtMostOneModelInScene == Cardinality(InScene) <= 1

\* every call of loadModelFromPath has got its load callback
AllLoaded == \A k \in DOMAIN gltfLoads : gltfLoads[k].state = "loaded"

\* C26 (SpecRig): once two or more loads have been requested and all of
\* them have completed, polyModel is the model of the path requested last.
C26_LatestRequestWins ==
    (Len(gltfLoads) >= 2 /\ AllLoaded)
    => polyModel.path = gltfLoads[Len(gltfLoads)].path

\* the number of equipped accessories of file f
Equipped(equipped, f) ==
    Cardinality({i \in DOMAIN equipped : equipped[i].fileName = f})

\* the step is a removal by the user: removeUgc or the clear button
UserRemoval == ClearUgc \/ \E index \in DOMAIN equippedUgc : RemoveUgc(index)

\* C27 (SpecAccessories): a step that is neither removeUgc nor the click on
\* clearUgcBtn leaves every equipped accessory in equippedUgc; in particular
\* the load callback of a model reload does.
C27_AccessoryStaysEquipped ==
    [][UserRemoval \/
       \A f \in AccessoryFiles :
           Equipped(equippedUgc', f) >= Equipped(equippedUgc, f)]_vars

\* C28 (SpecAccessories): the mesh of every equipped accessory has the
\* material its file was loaded with.
C28_AccessoryMaterialsKept ==
    \A i \in DOMAIN equippedUgc :
        equippedUgc[i].material = UgcMaterial(equippedUgc[i].fileName)

\* C29 (FairSpec): the object URL a run of the convert handler has created
\* for its image is revoked at some later point, whatever the outcome of the
\* decode and of the rest of the handler.
C29_ObjectUrlsRevoked ==
    \A i \in 1..MaxConv :
        (Running(i) /\ convs[i].url = "live")
            ~> (Running(i) /\ convs[i].url = "revoked")

\* a load of the character model or of the default face image has failed
LoadFailed ==
    \/ faceDecal = "failed"
    \/ \E k \in DOMAIN gltfLoads : gltfLoads[k].state = "failed"

\* the head and face meshes of the model show the default face decal
DecalShown ==
    /\ polyModel # NoModel
    /\ \A m \in FaceMeshes : polyModel.meshes[m].map = DecalTexture

\* C30 (FairSpecRig): unless a load of the character model or of the default
\* face image fails, the head and face meshes of the model show the default
\* face decal at some point after start-up.
C30_FaceDecalApplied == <>(LoadFailed \/ DecalShown)

====
